---------------------------- MODULE Spec2Model ----------------------------
(***************************************************************************)
(* The repository engine of ollama-model-manager (OllamaModelManager in    *)
(* src/ollama_cli.py; the same class is repeated in src/ollama_gui.py and  *)
(* src/ollama_side6.py): list_models, export_model, import_model and       *)
(* delete_model over a store of manifests and digest-named blobs.          *)
(*                                                                         *)
(* Strings that the code takes apart (digests, file names, archive paths)  *)
(* are sequences of tokens, so that startswith, replace, split and stem    *)
(* are computed as the code computes them.  A percentage is the pair       *)
(* <<numerator, denominator>> of the float the code passes to the          *)
(* callback.                                                               *)
(*                                                                         *)
(* The specifications: Spec is the engine called directly, CliSpec the     *)
(* command line of src/ollama_cli.py (main and its exit status), GuiSpec   *)
(* the window of src/ollama_gui.py with its queue and worker threads, and  *)
(* GuiLiveSpec the window with a timer and workers that keep running.      *)
(***************************************************************************)
EXTENDS Integers, Sequences, FiniteSets, TLC

VARIABLES
    manifests,   \* library/<name>/<tag> entries: <<name, tag>> -> entry
    modelDirs,   \* the names whose directory library/<name> exists
    blobs,       \* blobs_dir: blob file name -> content
    files,       \* archive files outside the store: path -> sequence of members
    tmpDirs,     \* the /tmp/ollama-export-*, /tmp/ollama-import-* directories that exist
    last,        \* the last engine call: its arguments and what it returned
    nops,        \* number of engine calls made (of worker threads started) so far
    gui,         \* the fields of the OllamaGUI window, when there is one
    threads      \* the worker threads of the window that have not finished

vars == <<manifests, modelDirs, blobs, files, tmpDirs, last, nops, gui, threads>>

---------------------------------------------------------------------------
(* Bounds of the model *)

\* Longest layer list of a manifest.
MaxLayers == 2
\* Number of engine calls in one behaviour.
MaxOps == 2

---------------------------------------------------------------------------
(* Values returned by the engine *)

\* `return None  # No error`
Success == "None"
\* `return "Operation cancelled by user"`
Cancelled == "Operation cancelled by user"
\* `return f"Error reading manifest: {e}"`
ErrReadingManifest == "Error reading manifest"
\* `return f"Error: Blob file {blob_filename} not found"`
ErrBlobNotFound == "Error: Blob file not found"
\* `return f"Error creating archive: {e}"`
ErrCreatingArchive == "Error creating archive"
\* `return "Operation completed but user cancelled at final step"`
CompletedButCancelled == "Operation completed but user cancelled at final step"
\* an exception that no handler of the engine catches leaves the call
RaisedZeroDivision == "raise ZeroDivisionError"
RaisedAttributeError == "raise AttributeError"
\* the call has not returned yet
Running == "running"

\* an OSError of a file operation that no `except` of the engine catches
RaisedOSError == "raise OSError"
Raised == {RaisedZeroDivision, RaisedAttributeError, RaisedOSError}

---------------------------------------------------------------------------
(* Digests, file names and file contents *)

Sha(hex) == <<"sha256", ":", hex>>

\* `.get("digest", "")` of an entry without the key
NoDigest == << >>

\* digest.startswith("sha256:")
StartsWithSha256(digest) ==
    Len(digest) >= 2 /\ digest[1] = "sha256" /\ digest[2] = ":"

\* digest.replace(":", "-")
BlobFilename(digest) ==
    [i \in 1..Len(digest) |-> IF digest[i] = ":" THEN "-" ELSE digest[i]]

MetadataName == <<"metadata", ".", "json">>
ManifestName == <<"manifest">>

\* A file whose bytes are a JSON object with "config" and "layers".
ManifestDoc(config, layers) ==
    [kind |-> "object", config |-> config, layers |-> layers]
\* A file whose bytes are valid JSON but not an object.
JsonList == [kind |-> "list"]
\* A file whose bytes are not JSON.
Garbage == [kind |-> "garbage"]
\* The bytes of a blob.
Bytes(b) == [kind |-> "bytes", data |-> b]
\* The metadata.json written by export_model.
MetadataDoc(model_name, param_size, original) ==
    [kind |-> "metadata", model_name |-> model_name,
     parameter_size |-> param_size, original_path |-> original]

\* json.load succeeds on the content
JsonLoads(content) == content.kind \in {"object", "list", "metadata"}
\* the loaded value has .get (is a dict)
IsDict(content) == content.kind \in {"object", "metadata"}

\* manifest.get("layers", [])
GetLayers(manifest) == IF manifest.kind = "object" THEN manifest.layers ELSE << >>
\* manifest.get("config", {}).get("digest", "")
GetConfigDigest(manifest) ==
    IF manifest.kind = "object" THEN manifest.config.digest ELSE NoDigest
\* manifest.get("config", {}).get("size", 0)
GetConfigSize(manifest) ==
    IF manifest.kind = "object" THEN manifest.config.size ELSE 0

RECURSIVE SumSizes(_)
\* sum(layer.get("size", 0) for layer in layers)
SumSizes(layers) ==
    IF layers = << >> THEN 0 ELSE Head(layers).size + SumSizes(Tail(layers))

---------------------------------------------------------------------------
(* Files and directories *)

\* f with key k set to v
Put(f, k, v) == [x \in (DOMAIN f) \cup {k} |-> IF x = k THEN v ELSE f[x]]
\* f without key k
Remove(f, k) == [x \in (DOMAIN f) \ {k} |-> f[x]]
\* the function with no key: an empty directory
EmptyDir == [x \in {} |-> Garbage]

\* library/<name>/<tag> as a file (the canonical form)
FileEntry(content) == [type |-> "file", content |-> content]
\* library/<name>/<tag> as a directory holding files (the legacy form)
DirEntry(inside) == [type |-> "dir", inside |-> inside]

\* The path library/<name>/<tag> (sub = "") or library/<name>/<tag>/<sub>.
ManifestPath(name, tag, sub) == [name |-> name, tag |-> tag, sub |-> sub]

\* manifest_file.parent
Parent(path) == IF path.sub = "" THEN <<path.name>> ELSE <<path.name, path.tag>>

\* no file operation fails
NoFault == "none"

\* the file system the engine works on, and the file operation that fails in it
FS == [manifests |-> manifests, modelDirs |-> modelDirs, blobs |-> blobs,
       files |-> files, tmpDirs |-> tmpDirs,
       fault |-> NoFault]

\* path.exists() and path.is_file()
IsFile(fs, path) ==
    LET k == <<path.name, path.tag>> IN
    /\ k \in DOMAIN fs.manifests
    /\ IF path.sub = ""
       THEN fs.manifests[k].type = "file"
       ELSE /\ fs.manifests[k].type = "dir"
            /\ path.sub \in DOMAIN fs.manifests[k].inside

\* the bytes of the file at path
ReadFile(fs, path) ==
    LET e == fs.manifests[<<path.name, path.tag>>] IN
    IF path.sub = "" THEN e.content ELSE e.inside[path.sub]

---------------------------------------------------------------------------
(* The progress callback: (message, percentage) -> continue *)

\* No callback: progress_callback=None.
NoCallback == [has |-> FALSE, stop |-> 0, sticky |-> FALSE]
\* A callback that answers False on its call number stop (never when stop = 0)
\* and, when sticky, on every later call (a cancel flag that stays set).
Callback(stop, sticky) == [has |-> TRUE, stop |-> stop, sticky |-> sticky]

\* the callback's answer to its k-th call
Continue(cb, k) ==
    ~ (cb.stop > 0 /\ (k = cb.stop \/ (cb.sticky /\ k > cb.stop)))

\* A call `progress_callback(msg, pct)` made by a running engine call m; seen is
\* what the callback finds of the working directories and the files when it
\* is called, kept for the latest call.
Notify(m, cb, msg, pct) ==
    LET k == m.calls + 1 IN
    [m EXCEPT !.calls = k,
              !.reports = Append(@, [msg |-> msg, pct |-> pct]),
              !.seen = [tmpDirs |-> m.fs.tmpDirs, files |-> m.fs.files],
              !.go = Continue(cb, k),
              !.refused = IF Continue(cb, k) THEN @ ELSE @ \cup {k}]

\* The start of an engine call on file system fs.
Start(fs) ==
    [ret |-> Running, fs |-> fs, calls |-> 0, reports |-> << >>, go |-> TRUE,
     refused |-> {}, staged |-> EmptyDir, blob_files |-> << >>, current_size |-> 0,
     model_name |-> "", param_size |-> "",
     seen |-> [tmpDirs |-> fs.tmpDirs, files |-> fs.files]]

Return(m, value) == [m EXCEPT !.ret = value]

---------------------------------------------------------------------------
(* export_model *)

\* temp_dir = /tmp/ollama-export-{model_name}-{param_size}
ExportTempDir(model_name, param_size) == <<"export", model_name, param_size>>

\* `shutil.rmtree(temp_dir, ignore_errors=True); return "Operation cancelled by user"`
ExportCancel(m, temp_dir) ==
    [m EXCEPT !.ret = Cancelled, !.fs.tmpDirs = @ \ {temp_dir}]

\* `if progress_callback: if not progress_callback(msg, (current_size / total_size) * 100): ...`
ExportBlobReport(m, cb, msg, total_size, temp_dir) ==
    IF ~cb.has THEN m
    ELSE IF total_size = 0 THEN Return(m, RaisedZeroDivision)
    ELSE LET n == Notify(m, cb, msg, <<m.current_size * 100, total_size>>) IN
         IF n.go THEN n ELSE ExportCancel(n, temp_dir)

\* A variant of ExportCopyBlob that moves the blob out of blobs_dir instead of
\* copying it (shutil.move for shutil.copy2): the frame property C9 tells the
\* two apart.
ExportMoveBlob(m, blob_filename) ==
    [m EXCEPT !.staged = Put(@, blob_filename, m.fs.blobs[blob_filename]),
              !.blob_files = Append(@, blob_filename),
              !.fs.blobs = Remove(@, blob_filename)]

\* `shutil.copy2(blob_path, temp_dir / blob_filename); blob_files.append(blob_filename)`
ExportCopyBlob(m, blob_filename) ==
    IF m.fs.fault = "copy_blob" THEN Return(m, RaisedOSError) ELSE
    [m EXCEPT !.staged = Put(@, blob_filename, m.fs.blobs[blob_filename]),
              !.blob_files = Append(@, blob_filename)]

\* One pass of `for i, layer in enumerate(manifest.get("layers", []))`.
ExportLayer(m, layer, cb, total_size, temp_dir) ==
    LET blob_filename == BlobFilename(layer.digest) IN
    IF ~StartsWithSha256(layer.digest) THEN m
    ELSE IF blob_filename \notin DOMAIN m.fs.blobs THEN Return(m, ErrBlobNotFound)
    ELSE LET a == ExportBlobReport(m, cb, "Copying", total_size, temp_dir) IN
         IF a.ret # Running THEN a
         ELSE LET b == [ExportCopyBlob(a, blob_filename)
                           EXCEPT !.current_size = @ + layer.size] IN
              IF b.ret # Running THEN b
              ELSE ExportBlobReport(b, cb, "Copied", total_size, temp_dir)

RECURSIVE ExportLayers(_, _, _, _, _)
\* The loop over the layers, left by the first return.
ExportLayers(m, layers, cb, total_size, temp_dir) ==
    IF layers = << >> \/ m.ret # Running THEN m
    ELSE ExportLayers(ExportLayer(m, Head(layers), cb, total_size, temp_dir),
                      Tail(layers), cb, total_size, temp_dir)

\* `# Also copy the config blob`: as a layer, but a missing blob is passed over.
ExportConfig(m, manifest, cb, total_size, temp_dir) ==
    LET config_digest == GetConfigDigest(manifest)
        blob_filename == BlobFilename(config_digest) IN
    IF m.ret # Running \/ ~StartsWithSha256(config_digest) THEN m
    ELSE IF blob_filename \notin DOMAIN m.fs.blobs THEN m
    ELSE LET a == ExportBlobReport(m, cb, "Copying config", total_size, temp_dir) IN
         IF a.ret # Running THEN a
         ELSE LET b == [ExportCopyBlob(a, blob_filename)
                           EXCEPT !.current_size = @ + GetConfigSize(manifest)] IN
              IF b.ret # Running THEN b
              ELSE ExportBlobReport(b, cb, "Copied config", total_size, temp_dir)

\* A gzip-compressed tar file: its members in the order they were added.
TarFile(members) == [kind |-> "tar", members |-> members]

\* tar.add(temp_dir / name, arcname=name)
TarAdd(m, output_path, name) ==
    [m EXCEPT !.fs.files[output_path].members =
                  Append(@, [name |-> name, content |-> m.staged[name]])]

\* A variant of ExportCancelArchiving without `os.unlink(output_path)`: the
\* half-written archive stays.  The cancellation property C6 tells the two apart.
ExportCancelKeepsOutput(m, temp_dir, output_path) ==
    [m EXCEPT !.ret = Cancelled, !.fs.tmpDirs = @ \ {temp_dir}]

\* The cancellation inside the `with tarfile.open(...)` block: rmtree(temp_dir),
\* `if os.path.exists(output_path): os.unlink(output_path)`, return cancelled.
ExportCancelArchiving(m, temp_dir, output_path) ==
    [m EXCEPT !.ret = Cancelled,
              !.fs.tmpDirs = @ \ {temp_dir},
              !.fs.files = Remove(@, output_path)]

RECURSIVE ExportAddBlobs(_, _, _, _, _)
\* `for blob_file in blob_files:` inside `with tarfile.open(output_path, "w:gz")`
ExportAddBlobs(m, blob_files, cb, temp_dir, output_path) ==
    IF blob_files = << >> \/ m.ret # Running THEN m
    ELSE LET n == IF cb.has THEN Notify(m, cb, "Adding to archive", <<95, 1>>) ELSE m IN
         IF ~n.go THEN ExportCancelArchiving(n, temp_dir, output_path)
         ELSE ExportAddBlobs(TarAdd(n, output_path, Head(blob_files)),
                             Tail(blob_files), cb, temp_dir, output_path)

\* `except Exception as e:` of the archive block: rmtree(temp_dir),
\* `if os.path.exists(output_path): os.unlink(output_path)`,
\* `return f"Error creating archive: {e}"`.
ExportArchiveFailed(m, temp_dir, output_path) ==
    [m EXCEPT !.ret = ErrCreatingArchive,
              !.fs.tmpDirs = @ \ {temp_dir},
              !.fs.files = Remove(@, output_path)]

\* A variant of ExportArchive that reports "Export complete" before it removes
\* the working directory.  The order property C27 tells the two apart.
ExportArchiveReportsFirst(m, cb, temp_dir, output_path) ==
    IF m.ret # Running THEN m
    ELSE LET n == IF cb.has THEN Notify(m, cb, "Creating archive", <<95, 1>>) ELSE m IN
         IF ~n.go THEN ExportCancel(n, temp_dir)
         ELSE LET opened == [n EXCEPT !.fs.files = Put(@, output_path, TarFile(<< >>))]
                  headed == TarAdd(TarAdd(opened, output_path, MetadataName),
                                   output_path, ManifestName)
                  added == ExportAddBlobs(headed, headed.blob_files, cb,
                                          temp_dir, output_path) IN
              IF added.ret # Running THEN added
              ELSE LET told == IF cb.has
                               THEN Notify(added, cb, "Export complete", <<100, 1>>)
                               ELSE added IN
                   Return([told EXCEPT !.fs.tmpDirs = @ \ {temp_dir}], Success)

\* `# Create the tar.gz file` to the end of export_model.
ExportArchive(m, cb, temp_dir, output_path) ==
    IF m.ret # Running THEN m
    ELSE LET n == IF cb.has THEN Notify(m, cb, "Creating archive", <<95, 1>>) ELSE m IN
         IF ~n.go THEN ExportCancel(n, temp_dir)
         ELSE IF n.fs.fault = "tarfile.open" THEN ExportArchiveFailed(n, temp_dir, output_path)
         ELSE LET opened == [n EXCEPT !.fs.files = Put(@, output_path, TarFile(<< >>))]
                  headed == TarAdd(TarAdd(opened, output_path, MetadataName),
                                   output_path, ManifestName)
                  added == ExportAddBlobs(headed, headed.blob_files, cb,
                                          temp_dir, output_path) IN
              IF n.fs.fault = "tar.add"
              THEN ExportArchiveFailed(opened, temp_dir, output_path)
              ELSE IF added.ret # Running THEN added
              ELSE LET cleaned == [added EXCEPT !.fs.tmpDirs = @ \ {temp_dir}]
                       told == IF cb.has
                               THEN Notify(cleaned, cb, "Export complete", <<100, 1>>)
                               ELSE cleaned IN
                   Return(told, Success)

\* A variant of export_model that copies the config blob before the layers.
\* The order property C25 tells the two apart.
export_model_config_first(fs, manifest_file, model_name, param_size, output_path, cb) ==
    LET m0 == Start(fs)
        temp_dir == ExportTempDir(model_name, param_size) IN
    IF ~IsFile(fs, manifest_file) \/ ~JsonLoads(ReadFile(fs, manifest_file))
    THEN Return(m0, ErrReadingManifest)
    ELSE LET manifest == ReadFile(fs, manifest_file)
             m1 == [m0 EXCEPT
                      !.fs.tmpDirs = @ \cup {temp_dir},
                      !.staged = Put(Put(EmptyDir, MetadataName,
                                         MetadataDoc(model_name, param_size,
                                                     Parent(manifest_file))),
                                     ManifestName, manifest)] IN
         IF ~IsDict(manifest) THEN Return(m1, RaisedAttributeError)
         ELSE LET total_size == SumSizes(GetLayers(manifest)) + GetConfigSize(manifest)
                  m2 == ExportConfig(m1, manifest, cb, total_size, temp_dir)
                  m3 == ExportLayers(m2, GetLayers(manifest), cb, total_size, temp_dir) IN
              ExportArchive(m3, cb, temp_dir, output_path)

\* export_model(manifest_file, model_name, param_size, output_path, progress_callback)
export_model(fs, manifest_file, model_name, param_size, output_path, cb) ==
    LET m0 == Start(fs)
        temp_dir == ExportTempDir(model_name, param_size) IN
    IF ~IsFile(fs, manifest_file) \/ ~JsonLoads(ReadFile(fs, manifest_file))
    THEN Return(m0, ErrReadingManifest)
    ELSE IF fs.fault \in {"write_metadata", "copy_manifest"}
    THEN Return([m0 EXCEPT !.fs.tmpDirs = @ \cup {temp_dir}], RaisedOSError)
    ELSE LET manifest == ReadFile(fs, manifest_file)
             \* temp_dir.mkdir, metadata.json, the copy of the manifest
             m1 == [m0 EXCEPT
                      !.fs.tmpDirs = @ \cup {temp_dir},
                      !.staged = Put(Put(EmptyDir, MetadataName,
                                         MetadataDoc(model_name, param_size,
                                                     Parent(manifest_file))),
                                     ManifestName, manifest)] IN
         IF ~IsDict(manifest) THEN Return(m1, RaisedAttributeError)
         ELSE LET total_size == SumSizes(GetLayers(manifest)) + GetConfigSize(manifest)
                  m2 == ExportLayers(m1, GetLayers(manifest), cb, total_size, temp_dir)
                  m3 == ExportConfig(m2, manifest, cb, total_size, temp_dir) IN
              ExportArchive(m3, cb, temp_dir, output_path)

---------------------------------------------------------------------------
(* import_model *)

\* `return f"Error: Archive {archive_path} not found"`
ErrArchiveNotFound == "Error: Archive not found"
\* `return f"Error extracting archive: {e}"`
ErrExtractingArchive == "Error extracting archive"
\* `return "Error: No manifest file found in archive"`
ErrNoManifest == "Error: No manifest file found in archive"
\* `return f"Error reading metadata: {e}"`
ErrReadingMetadata == "Error reading metadata"
\* `return f"Error copying manifest: {e}"`
ErrCopyingManifest == "Error copying manifest"
\* `return f"Error: Blob file {blob_filename} not found in archive"`
ErrBlobNotInArchive == "Error: Blob file not found in archive"

RECURSIVE Text(_)
\* the string a sequence of tokens spells
Text(tokens) == IF tokens = << >> THEN "" ELSE Head(tokens) \o Text(Tail(tokens))

RECURSIVE SplitOn(_, _)
\* str.split(sep): the parts between the separators, as strings
SplitOn(tokens, sep) ==
    LET at == {i \in 1..Len(tokens) : tokens[i] = sep} IN
    IF at = {} THEN <<Text(tokens)>>
    ELSE LET i == CHOOSE i \in at : \A j \in at : i <= j IN
         <<Text(SubSeq(tokens, 1, i - 1))>> \o SplitOn(SubSeq(tokens, i + 1, Len(tokens)), sep)

\* Path.stem: the file name without its last suffix
Stem(path) ==
    LET dots == {i \in 2..Len(path) : path[i] = "."} IN
    IF dots = {} THEN path
    ELSE SubSeq(path, 1, (CHOOSE i \in dots : \A j \in dots : i >= j) - 1)

\* temp_dir = /tmp/ollama-import-{archive_path.stem}
ImportTempDir(archive_path) == <<"import", Text(Stem(archive_path))>>

\* A variant of ImportAbort without `shutil.rmtree(temp_dir)`: the working
\* directory stays behind a failed or cancelled import.  The property C11
\* tells the two apart.
ImportAbortKeepsDir(m, temp_dir, value) == [m EXCEPT !.ret = value]

\* `shutil.rmtree(temp_dir); return value`
ImportAbort(m, temp_dir, value) ==
    [m EXCEPT !.ret = value, !.fs.tmpDirs = @ \ {temp_dir}]

\* A variant of ImportReport that passes over the callback's answer: the import
\* goes on after a False.  The cancellation property C12 tells the two apart.
ImportReportPassesOver(m, cb, msg, pct, temp_dir) ==
    IF m.ret # Running \/ ~cb.has THEN m ELSE Notify(m, cb, msg, pct)

\* `if progress_callback: if not progress_callback(msg, pct): shutil.rmtree(temp_dir); return cancelled`
ImportReport(m, cb, msg, pct, temp_dir) ==
    IF m.ret # Running \/ ~cb.has THEN m
    ELSE LET n == Notify(m, cb, msg, pct) IN
         IF n.go THEN n ELSE ImportAbort(n, temp_dir, Cancelled)

RECURSIVE ImportExtract(_, _, _, _)
\* `for member in tar.getmembers(): ... tar.extract(member, path=temp_dir)`
ImportExtract(m, members, cb, temp_dir) ==
    IF members = << >> \/ m.ret # Running THEN m
    ELSE LET n == ImportReport(m, cb, "Extracting member", <<10, 1>>, temp_dir) IN
         IF n.ret # Running THEN n
         ELSE ImportExtract([n EXCEPT !.staged = Put(@, Head(members).name,
                                                      Head(members).content)],
                            Tail(members), cb, temp_dir)

\* A variant of ImportName that looks at metadata.json first and at the custom
\* name only when the metadata gives no name.  The priority property C14
\* tells the two apart.
ImportNameMetadataFirst(metadata_name, metadata_size, custom_name, archive_path) ==
    IF metadata_name # "" /\ metadata_size # ""
    THEN <<metadata_name, metadata_size>>
    ELSE IF custom_name # << >>
    THEN LET parts == SplitOn(custom_name, ":") IN
         <<parts[1], IF Len(parts) > 1 THEN parts[2] ELSE "default">>
    ELSE LET parts == SplitOn(Stem(archive_path), "-") IN
         IF Len(parts) > 1 THEN <<parts[1], parts[Len(parts)]>>
         ELSE <<Text(Stem(archive_path)), "default">>

\* `# Determine model name and parameter size`: <<model_name, param_size>>
ImportName(metadata_name, metadata_size, custom_name, archive_path) ==
    IF custom_name # << >>
    THEN LET parts == SplitOn(custom_name, ":") IN
         <<parts[1], IF Len(parts) > 1 THEN parts[2] ELSE "default">>
    ELSE IF metadata_name = "" \/ metadata_size = ""
    THEN LET parts == SplitOn(Stem(archive_path), "-") IN
         IF Len(parts) > 1 THEN <<parts[1], parts[Len(parts)]>>
         ELSE <<Text(Stem(archive_path)), "default">>
    ELSE <<metadata_name, metadata_size>>

\* metadata.get(key): the empty string stands for None too (both are falsy)
MetadataGet(metadata, key) ==
    IF metadata.kind = "metadata" THEN metadata[key] ELSE ""

\* shutil.copy2(manifest_file, model_path): into the directory when model_path
\* is one, under the source's name
CopyManifest(m, model_name, param_size) ==
    LET k == <<model_name, param_size>>
        content == m.staged[ManifestName] IN
    IF k \in DOMAIN m.fs.manifests /\ m.fs.manifests[k].type = "dir"
    THEN [m EXCEPT !.fs.manifests[k].inside = Put(@, "manifest", content)]
    ELSE [m EXCEPT !.fs.manifests = Put(@, k, FileEntry(content))]

\* A variant of ImportCopyBlob that copies nothing.  The property C13 tells the
\* two apart.
ImportSkipBlob(m, blob_filename) == m

\* shutil.copy2(source_path, dest_path) of a blob
ImportCopyBlob(m, blob_filename) ==
    [m EXCEPT !.fs.blobs = Put(@, blob_filename, m.staged[blob_filename])]

\* `# Copy config blob`: a blob that is not in the archive is passed over.
ImportConfig(m, manifest, cb, temp_dir) ==
    LET config_digest == GetConfigDigest(manifest)
        blob_filename == BlobFilename(config_digest) IN
    IF ~StartsWithSha256(config_digest) \/ blob_filename \notin DOMAIN m.staged THEN m
    ELSE LET n == ImportReport(m, cb, "Copying config", <<25, 1>>, temp_dir) IN
         IF n.ret # Running THEN n
         ELSE [ImportCopyBlob(n, blob_filename)
                  EXCEPT !.current_size = @ + GetConfigSize(manifest)]

RECURSIVE ImportLayers(_, _, _, _, _)
\* `for i, layer in enumerate(manifest.get("layers", [])):` from index i (0-based) on
ImportLayers(m, layers, i, cb, temp_dir) ==
    IF i >= Len(layers) \/ m.ret # Running THEN m
    ELSE LET layer == layers[i + 1]
             blob_filename == BlobFilename(layer.digest) IN
         IF ~StartsWithSha256(layer.digest)
         THEN ImportLayers(m, layers, i + 1, cb, temp_dir)
         ELSE IF blob_filename \notin DOMAIN m.staged
         THEN ImportAbort(m, temp_dir, ErrBlobNotInArchive)
         ELSE LET n == ImportReport(m, cb, "Copying layer",
                                    <<25 * Len(layers) + i * 70, Len(layers)>>, temp_dir) IN
              IF n.ret # Running THEN n
              ELSE ImportLayers([ImportCopyBlob(n, blob_filename)
                                    EXCEPT !.current_size = @ + layer.size],
                                layers, i + 1, cb, temp_dir)

\* `# Create parent directory` to the end of import_model.
ImportInstall(m, manifest, cb, temp_dir) ==
    LET made == [m EXCEPT !.fs.modelDirs = @ \cup {m.model_name}]
        told == ImportReport(made, cb, "Importing", <<20, 1>>, temp_dir) IN
    IF told.ret # Running THEN told
    ELSE LET copied == CopyManifest(told, m.model_name, m.param_size) IN
         IF ~IsDict(manifest) THEN Return(copied, RaisedAttributeError)
         ELSE LET a == ImportConfig(copied, manifest, cb, temp_dir)
                  b == ImportLayers(a, GetLayers(manifest), 0, cb, temp_dir) IN
              IF b.ret # Running THEN b
              ELSE LET cleaned == [b EXCEPT !.fs.tmpDirs = @ \ {temp_dir}]
                       c == IF cb.has
                            THEN Notify(cleaned, cb, "Import complete", <<100, 1>>)
                            ELSE cleaned IN
                   IF ~c.go THEN Return(c, CompletedButCancelled) ELSE Return(c, Success)

\* `# Check for manifest file` to `# If still no name, infer from archive name`.
ImportRead(m, archive_path, custom_name, cb, temp_dir) ==
    IF m.ret # Running THEN m
    ELSE IF ManifestName \notin DOMAIN m.staged THEN ImportAbort(m, temp_dir, ErrNoManifest)
    ELSE LET told == ImportReport(m, cb, "Reading manifest", <<15, 1>>, temp_dir)
             manifest == m.staged[ManifestName] IN
         IF told.ret # Running THEN told
         ELSE IF ~JsonLoads(manifest) THEN ImportAbort(told, temp_dir, ErrReadingManifest)
         ELSE IF MetadataName \in DOMAIN m.staged
                 /\ ~(JsonLoads(m.staged[MetadataName]) /\ IsDict(m.staged[MetadataName]))
         THEN \* the handler returns without removing temp_dir
              Return(told, ErrReadingMetadata)
         ELSE LET metadata == IF MetadataName \in DOMAIN m.staged
                              THEN m.staged[MetadataName] ELSE Garbage
                  name == ImportName(MetadataGet(metadata, "model_name"),
                                     MetadataGet(metadata, "parameter_size"),
                                     custom_name, archive_path) IN
              ImportInstall([told EXCEPT !.model_name = name[1], !.param_size = name[2]],
                            manifest, cb, temp_dir)

\* import_model(archive_path, custom_name, progress_callback)
import_model(fs, archive_path, custom_name, cb) ==
    LET m0 == Start(fs)
        temp_dir == ImportTempDir(archive_path) IN
    IF archive_path \notin DOMAIN fs.files THEN Return(m0, ErrArchiveNotFound)
    ELSE LET m1 == [m0 EXCEPT !.fs.tmpDirs = @ \cup {temp_dir}]
             m2 == ImportReport(m1, cb, "Extracting archive", <<10, 1>>, temp_dir) IN
         IF m2.ret # Running THEN m2
         ELSE IF fs.files[archive_path].kind # "tar"
         THEN ImportAbort(m2, temp_dir, ErrExtractingArchive)
         ELSE ImportRead(ImportExtract(m2, fs.files[archive_path].members, cb, temp_dir),
                         archive_path, custom_name, cb, temp_dir)

---------------------------------------------------------------------------
(* delete_model *)

\* `return f"Error: Model {model_name}:{param_size} not found"`
ErrModelNotFound == "Error: Model not found"
\* `return f"Error deleting manifest: {e}"`
ErrDeletingManifest == "Error deleting manifest"

\* `if progress_callback: if not progress_callback(msg, pct): return "Operation cancelled by user"`
DeleteReport(m, cb, msg, pct) ==
    IF m.ret # Running \/ ~cb.has THEN m
    ELSE LET n == Notify(m, cb, msg, pct) IN
         IF n.go THEN n ELSE Return(n, Cancelled)

RECURSIVE DigestsOf(_)
\* `for layer in manifest.get("layers", []): ... blob_digests.append(digest)`
DigestsOf(layers) ==
    IF layers = << >> THEN << >>
    ELSE (IF StartsWithSha256(Head(layers).digest) THEN <<Head(layers).digest>> ELSE << >>)
         \o DigestsOf(Tail(layers))

\* `# Collect all blob digests` and `# Convert digests to filenames`
BlobFilenames(manifest) ==
    LET config_digest == GetConfigDigest(manifest)
        blob_digests ==
            (IF StartsWithSha256(config_digest) THEN <<config_digest>> ELSE << >>)
            \o DigestsOf(GetLayers(manifest)) IN
    [i \in 1..Len(blob_digests) |-> BlobFilename(blob_digests[i])]

\* A variant of UnlinkBlob that leaves the blob file where it is.  The property
\* C16 tells the two apart.
UnlinkBlobKeeps(m, blob_filename) == m

\* blob_path.unlink()
UnlinkBlob(m, blob_filename) == [m EXCEPT !.fs.blobs = Remove(@, blob_filename)]

RECURSIVE DeleteBlobsStrict(_, _, _, _)
\* A variant of DeleteBlobs that fails on a blob that is not there (as
\* export_model does for a layer).  The property C18 tells the two apart.
DeleteBlobsStrict(m, blob_filenames, i, cb) ==
    IF i >= Len(blob_filenames) \/ m.ret # Running THEN m
    ELSE LET blob_filename == blob_filenames[i + 1] IN
         IF blob_filename \notin DOMAIN m.fs.blobs
         THEN Return(m, ErrBlobNotFound)
         ELSE LET n == DeleteReport(m, cb, "Deleting blob",
                                    <<30 * Len(blob_filenames) + i * 60,
                                      Len(blob_filenames)>>) IN
              IF n.ret # Running THEN n
              ELSE DeleteBlobsStrict([n EXCEPT !.fs.blobs = Remove(@, blob_filename)],
                                     blob_filenames, i + 1, cb)

RECURSIVE DeleteBlobs(_, _, _, _)
\* `for i, blob_filename in enumerate(blob_filenames):` from index i (0-based) on
DeleteBlobs(m, blob_filenames, i, cb) ==
    IF i >= Len(blob_filenames) \/ m.ret # Running THEN m
    ELSE LET blob_filename == blob_filenames[i + 1] IN
         IF blob_filename \notin DOMAIN m.fs.blobs
         THEN DeleteBlobs(m, blob_filenames, i + 1, cb)
         ELSE LET n == DeleteReport(m, cb, "Deleting blob",
                                    <<30 * Len(blob_filenames) + i * 60,
                                      Len(blob_filenames)>>) IN
              IF n.ret # Running THEN n
              ELSE DeleteBlobs(UnlinkBlob(n, blob_filename), blob_filenames, i + 1, cb)

\* model_path.unlink()
UnlinkManifest(m, model_name, param_size) ==
    [m EXCEPT !.fs.manifests = Remove(@, <<model_name, param_size>>)]

\* A variant of DeleteEmptyDir without `model_dir.rmdir()`: the emptied model
\* directory stays.  The deletion property C7 tells the two apart.
DeleteLeavesDir(m, model_name, cb) == m

\* `# Check if model directory is empty and delete if it is`
DeleteEmptyDir(m, model_name, cb) ==
    LET remaining_files == {k \in DOMAIN m.fs.manifests : k[1] = model_name} IN
    IF remaining_files # {} THEN m
    ELSE LET n == IF cb.has
                  THEN Notify(m, cb, "Deleting empty model directory", <<95, 1>>)
                  ELSE m IN
         \* the answer is passed over; model_dir.rmdir()
         [n EXCEPT !.fs.modelDirs = @ \ {model_name}]

\* A variant of DeleteManifest that passes over a failure of
\* model_path.unlink() as the blob loop passes over one of blob_path.unlink().
\* The failure property C30 tells the two apart.
DeleteManifestPassesOver(m, model_name, param_size, cb) ==
    LET a == DeleteReport(m, cb, "Deleting manifest", <<90, 1>>) IN
    IF a.ret # Running THEN a
    ELSE LET b == IF a.fs.fault = "unlink_manifest" THEN a
                  ELSE DeleteEmptyDir(UnlinkManifest(a, model_name, param_size),
                                      model_name, cb)
             c == IF cb.has THEN Notify(b, cb, "Delete complete", <<100, 1>>) ELSE b IN
         IF ~c.go THEN Return(c, CompletedButCancelled) ELSE Return(c, Success)

\* A variant of DeleteManifest in which a False at the last report counts as
\* a cancellation like any other.  The property C35 tells the two apart.
DeleteManifestCancelsAtLastStep(m, model_name, param_size, cb) ==
    LET a == DeleteReport(m, cb, "Deleting manifest", <<90, 1>>) IN
    IF a.ret # Running THEN a
    ELSE IF a.fs.fault = "unlink_manifest" THEN Return(a, ErrDeletingManifest)
    ELSE LET b == DeleteEmptyDir(UnlinkManifest(a, model_name, param_size),
                                 model_name, cb)
             c == IF cb.has THEN Notify(b, cb, "Delete complete", <<100, 1>>) ELSE b IN
         IF ~c.go THEN Return(c, Cancelled) ELSE Return(c, Success)

\* `# Delete the manifest file` to the end of delete_model.
DeleteManifest(m, model_name, param_size, cb) ==
    LET a == DeleteReport(m, cb, "Deleting manifest", <<90, 1>>) IN
    IF a.ret # Running THEN a
    ELSE IF a.fs.fault = "unlink_manifest" THEN Return(a, ErrDeletingManifest)
    ELSE LET b == DeleteEmptyDir(UnlinkManifest(a, model_name, param_size),
                                 model_name, cb)
             c == IF cb.has THEN Notify(b, cb, "Delete complete", <<100, 1>>) ELSE b IN
         IF ~c.go THEN Return(c, CompletedButCancelled) ELSE Return(c, Success)

\* `# Read the manifest to find associated blob files` to the end of delete_model.
DeleteExisting(m0, model_name, param_size, cb) ==
    LET fs == m0.fs
        model_path == ManifestPath(model_name, param_size, "")
        m1 == DeleteReport(m0, cb, "Reading manifest", <<10, 1>>) IN
    IF m1.ret # Running THEN m1
    ELSE IF ~IsFile(fs, model_path) \/ ~JsonLoads(ReadFile(fs, model_path))
    THEN Return(m1, ErrReadingManifest)
    ELSE IF ~IsDict(ReadFile(fs, model_path))
    THEN Return(m1, RaisedAttributeError)
    ELSE LET manifest == ReadFile(fs, model_path)
             blob_filenames == BlobFilenames(manifest)
             m2 == DeleteReport(m1, cb, "Deleting blob files", <<30, 1>>)
             m3 == DeleteBlobs(m2, blob_filenames, 0, cb) IN
         IF m3.ret # Running THEN m3
         ELSE DeleteManifest(m3, model_name, param_size, cb)

\* A variant of delete_model without `if not model_path.exists()`: a variant
\* that is not there is treated like one that is.  The property C17 tells the
\* two apart.
delete_model_unchecked(fs, model_name, param_size, cb) ==
    DeleteExisting(Start(fs), model_name, param_size, cb)

\* delete_model(model_name, param_size, progress_callback)
delete_model(fs, model_name, param_size, cb) ==
    IF <<model_name, param_size>> \notin DOMAIN fs.manifests
    THEN Return(Start(fs), ErrModelNotFound)
    ELSE DeleteExisting(Start(fs), model_name, param_size, cb)
---------------------------------------------------------------------------
(* list_models *)

\* 1024 ** 3
GiB == 1073741824

\* A variant of Alternatives that tries "manifest" before the file named after
\* the tag.  The fallback property C29 tells the two apart.
AlternativesManifestFirst(param_size) == <<"manifest", param_size, "manifest.json">>

\* `alternatives` of the legacy structure, in the order they are tried
Alternatives(param_size) == <<param_size, "manifest", "manifest.json">>

\* The manifest file of the entry library/<model_name>/<param_size>: the entry
\* itself when it is a file, else the first alternative inside it that is a
\* file; the empty set when there is none.
ManifestFileOf(fs, model_name, param_size) ==
    LET entry == fs.manifests[<<model_name, param_size>>]
        alternatives == Alternatives(param_size)
        found == {i \in 1..Len(alternatives) : alternatives[i] \in DOMAIN entry.inside} IN
    IF entry.type = "file" THEN {ManifestPath(model_name, param_size, "")}
    ELSE IF found = {} THEN {}
    ELSE {ManifestPath(model_name, param_size,
                       alternatives[CHOOSE i \in found : \A j \in found : i <= j])}

\* The variants of one model directory: an entry whose manifest does not parse,
\* or is no object, adds nothing.
VariantsOf(fs, model_name) ==
    {[parameter_size |-> k[2],
      size_gb |-> <<SumSizes(GetLayers(ReadFile(fs, mf))), GiB>>,
      path |-> <<k[1], k[2]>>,
      manifest_file |-> mf] :
        <<k, mf>> \in {<<k, mf>> \in (DOMAIN fs.manifests) \X
                           UNION {ManifestFileOf(fs, e[1], e[2]) : e \in DOMAIN fs.manifests} :
                         /\ k[1] = model_name
                         /\ mf \in ManifestFileOf(fs, k[1], k[2])
                         /\ JsonLoads(ReadFile(fs, mf))
                         /\ IsDict(ReadFile(fs, mf))}}

\* list_models(): model name -> its variants, for the names that have one
list_models(fs) ==
    [model_name \in {n \in fs.modelDirs : VariantsOf(fs, n) # {}} |->
        VariantsOf(fs, model_name)]

\* The variant list_models appends for the entry k whose manifest file is mf.
Variant(fs, k, mf) ==
    [parameter_size |-> k[2],
     size_gb |-> <<SumSizes(GetLayers(ReadFile(fs, mf))), GiB>>,
     path |-> <<k[1], k[2]>>,
     manifest_file |-> mf]

\* One pass of `for model_path in model_dir.glob("*")` for the entry k: the
\* variant is appended to models[model_name]; an entry without a manifest
\* file adds nothing, and neither does one whose manifest raises (a
\* JSONDecodeError, or the AttributeError of .get on what is no dict: both
\* are caught inside the pass).
ScanEntry(fs, k, models) ==
    LET found == ManifestFileOf(fs, k[1], k[2]) IN
    IF found = {} THEN models
    ELSE LET mf == CHOOSE p \in found : TRUE IN
         IF ~JsonLoads(ReadFile(fs, mf)) \/ ~IsDict(ReadFile(fs, mf)) THEN models
         ELSE Put(models, k[1],
                  Append(IF k[1] \in DOMAIN models THEN models[k[1]] ELSE << >>,
                         Variant(fs, k, mf)))

RECURSIVE ScanEntriesUntilBad(_, _, _)
\* A variant of ScanEntries whose try is around the loop: the first manifest
\* that raises ends the scan.  The property C19 tells the two apart.
ScanEntriesUntilBad(fs, entries, models) ==
    IF entries = << >> THEN models
    ELSE LET found == ManifestFileOf(fs, Head(entries)[1], Head(entries)[2]) IN
         IF /\ found # {}
            /\ \E mf \in found : ~JsonLoads(ReadFile(fs, mf)) \/ ~IsDict(ReadFile(fs, mf))
         THEN models
         ELSE ScanEntriesUntilBad(fs, Tail(entries), ScanEntry(fs, Head(entries), models))

RECURSIVE ScanEntries(_, _, _)
\* The loops of list_models over the entries in the order glob gives them.
ScanEntries(fs, entries, models) ==
    IF entries = << >> THEN models
    ELSE ScanEntries(fs, Tail(entries), ScanEntry(fs, Head(entries), models))

\* The orders in which glob can give the entries of the library.
Orders(fs) ==
    LET D == DOMAIN fs.manifests IN
    {order \in [1..Cardinality(D) -> D] :
        \A i, j \in 1..Cardinality(D) : order[i] = order[j] => i = j}

\* list_models() when glob gives the entries in the given order:
\* model name -> the list of its variants
list_models_in(fs, order) == ScanEntries(fs, order, [n \in {} |-> << >>])

---------------------------------------------------------------------------
(* The inputs of the model *)

\* Digests of layers, of configs, and the sizes recorded with them.  One size
\* is recorded throughout a manifest: all entries 0 (or without "size") gives
\* total_size = 0, all entries 1 gives percentages strictly between 0 and 100.
LayerDigests == {Sha("aa"), Sha("bb")}
ConfigDigests == {NoDigest, Sha("aa"), Sha("cc")}
Sizes == {0, 1}

DigestLists == UNION {[1..n -> LayerDigests] : n \in 0..MaxLayers}

\* The manifest with the given config digest and layer digests, every size s.
Sized(config_digest, digests, s) ==
    ManifestDoc([digest |-> config_digest, size |-> s],
                [i \in 1..Len(digests) |-> [digest |-> digests[i], size |-> s]])

\* The manifests of the model.
ManifestDocs ==
    {Sized(c, ds, s) : c \in ConfigDigests, ds \in DigestLists, s \in Sizes}

\* A manifest with a config and two layers, all three blobs different.
Typical == Sized(Sha("cc"), <<Sha("aa"), Sha("bb")>>, 1)

\* A manifest with a config and one layer, blobs that Typical has too.
Smaller == Sized(Sha("cc"), <<Sha("aa")>>, 1)

\* The digests a manifest refers to (an entry without a digest refers to none).
Referenced(manifest) ==
    ({GetConfigDigest(manifest)} \cup
     {GetLayers(manifest)[i].digest : i \in 1..Len(GetLayers(manifest))}) \ {NoDigest}

\* The bytes a blob has in the store at the start.
OriginalBytes(blob_filename) == Bytes(<<blob_filename, "original">>)

\* The callbacks that answer False on one of the first n calls, or on none.
CancelOnce(n) == {Callback(k, FALSE) : k \in 0..n}
\* The callbacks whose False stays: False on every call from one of the first n on.
CancelFrom(n) == {Callback(k, TRUE) : k \in 1..n}
\* The always-continue callback.
Always == Callback(0, FALSE)

\* The file operations of export_model and of delete_model that the model
\* lets fail (an OSError: no space, no permission): the one named is the
\* first to fail.  "copy_blob" is the first shutil.copy2 of a blob, "tar.add"
\* the first tar.add after tarfile.open has made the output file.
ExportFaults ==
    {"write_metadata", "copy_manifest", "copy_blob", "tarfile.open", "tar.add"}
DeleteFaults == {"unlink_manifest"}

\* The callbacks an engine call that makes n calls of its callback is run
\* with: with a failing file operation, none or the always-continue one.
Callbacks(fault, n) ==
    IF fault = NoFault THEN {NoCallback} \cup CancelOnce(n) ELSE {NoCallback, Always}

\* The names and tags a front end asks for.
Names == {"alpha", "beta"}
Tags == {"7b", "13b"}

\* The custom names an import is given: none, a name, a name with a tag.
CustomNames == {<< >>, <<"beta">>, <<"beta", ":", "13b">>}

OutputPaths == {<<"alpha", "-", "7b", ".", "tar", ".", "gz">>}

\* The files an export can be asked to read: what list_models would look at.
ManifestPaths(fs) ==
    {ManifestPath(k[1], k[2], "") : k \in DOMAIN fs.manifests} \cup
    UNION {IF fs.manifests[k].type = "dir"
           THEN {ManifestPath(k[1], k[2], n) : n \in DOMAIN fs.manifests[k].inside}
           ELSE {} : k \in DOMAIN fs.manifests}

---------------------------------------------------------------------------
(* The state machine *)

NoFiles == [p \in {} |-> TarFile(<< >>)]
NoManifests == [k \in {} |-> FileEntry(Garbage)]

\* A store with the one variant alpha:7b, in the canonical form, and any part
\* of the blobs its manifest names.
InitSingle ==
    \E doc \in ManifestDocs \cup {JsonList, Garbage} :
    \E present \in SUBSET {BlobFilename(d) : d \in Referenced(doc)} :
        /\ manifests = (<<"alpha", "7b">> :> FileEntry(doc))
        /\ modelDirs = {"alpha"}
        /\ blobs = [f \in present |-> OriginalBytes(f)]
        /\ files = NoFiles
        /\ tmpDirs = {}

\* What a second entry of the library can be: a variant that shares its blobs
\* with alpha:7b, a file that is no manifest, or a directory of the legacy
\* form with none, one or several of the files list_models looks for (when
\* there are several they differ).
SecondEntries(param_size) ==
    {FileEntry(Typical), FileEntry(Garbage), DirEntry(EmptyDir)} \cup
    {DirEntry((n :> Typical)) : n \in {param_size, "manifest", "manifest.json"}} \cup
    {DirEntry((param_size :> Typical) @@ ("manifest" :> Smaller)
              @@ ("manifest.json" :> Garbage)),
     DirEntry(("manifest" :> Smaller) @@ ("manifest.json" :> Typical))}

\* A store with alpha:7b and a second entry, beside it or under another name.
InitPair ==
    \E k \in {<<"alpha", "13b">>, <<"beta", "7b">>} :
    \E second \in SecondEntries(k[2]) :
    \E present \in SUBSET {BlobFilename(d) : d \in Referenced(Typical)} :
        /\ manifests = (<<"alpha", "7b">> :> FileEntry(Typical)) @@ (k :> second)
        /\ modelDirs = {"alpha", k[1]}
        /\ blobs = [f \in present |-> OriginalBytes(f)]
        /\ files = NoFiles
        /\ tmpDirs = {}

\* The bytes a blob has in an archive that comes from elsewhere.
ForeignBytes(blob_filename) == Bytes(<<blob_filename, "foreign">>)

\* tar members for the blobs of the given digests, in that order
BlobMembers(digests) ==
    [i \in 1..Len(digests) |->
        [name |-> BlobFilename(digests[i]),
         content |-> ForeignBytes(BlobFilename(digests[i]))]]

\* The metadata.json members an archive from elsewhere can have: none, one
\* with both fields, one with empty fields, one with a name and no tag, one
\* that is not JSON.
ForeignMetadata ==
    {<< >>} \cup
    {<<[name |-> MetadataName, content |-> c]>> :
        c \in {MetadataDoc("beta", "7b", <<"beta">>), MetadataDoc("", "", << >>),
               MetadataDoc("beta", "", <<"beta">>), Garbage}}

\* Archives from elsewhere: whole ones whose metadata.json and manifest vary,
\* ones with the manifest Typical and only a part of its blobs, and a file
\* that is no archive.
ForeignArchives ==
    {TarFile(meta \o man \o BlobMembers(<<Sha("cc"), Sha("aa"), Sha("bb")>>)) :
        meta \in ForeignMetadata,
        man \in {<< >>} \cup
                {<<[name |-> ManifestName, content |-> c]>> :
                    c \in {Typical, Garbage, JsonList}}}
    \cup
    {TarFile(<<[name |-> MetadataName, content |-> MetadataDoc("beta", "7b", <<"beta">>)],
               [name |-> ManifestName, content |-> Typical]>> \o BlobMembers(ds)) :
        ds \in {<< >>, <<Sha("cc")>>, <<Sha("cc"), Sha("aa")>>, <<Sha("aa"), Sha("bb")>>,
                <<Sha("bb"), Sha("cc")>>}}
    \cup {[kind |-> "garbage"]}

\* An empty store, or one that holds alpha:7b, and a file from elsewhere.
InitForeign ==
    \E archive \in ForeignArchives :
    \E held \in {NoManifests, (<<"alpha", "7b">> :> FileEntry(Typical))} :
        /\ manifests = held
        /\ modelDirs = {k[1] : k \in DOMAIN held}
        /\ blobs = [f \in {BlobFilename(d) : d \in
                             IF held = NoManifests THEN {} ELSE Referenced(Typical)}
                      |-> OriginalBytes(f)]
        /\ files = [p \in OutputPaths |-> archive]
        /\ tmpDirs = {}

\* Archive files whose names the destination is inferred from: a name with
\* several hyphens and one suffix, and a name with no hyphen.
InferredPaths ==
    {<<"my", "-", "alpha", "-", "7b", ".", "tgz">>, <<"gamma", ".", "tgz">>}

\* An empty store, or one that holds alpha:7b, and a whole archive without
\* metadata.json under one of the names of InferredPaths.
InitInferred ==
    \E path \in InferredPaths :
    \E held \in {NoManifests, (<<"alpha", "7b">> :> FileEntry(Typical))} :
        /\ manifests = held
        /\ modelDirs = {k[1] : k \in DOMAIN held}
        /\ blobs = [f \in {BlobFilename(d) : d \in
                             IF held = NoManifests THEN {} ELSE Referenced(Typical)}
                      |-> OriginalBytes(f)]
        /\ files = (path :> TarFile(<<[name |-> ManifestName, content |-> Typical]>>
                                    \o BlobMembers(<<Sha("cc"), Sha("aa"), Sha("bb")>>)))
        /\ tmpDirs = {}

\* no window is open
NoWindow == [open |-> FALSE]

Init ==
    /\ (InitSingle \/ InitPair \/ InitForeign \/ InitInferred)
    /\ last = [op |-> "none"]
    /\ nops = 0
    /\ gui = NoWindow
    /\ threads = << >>

\* The file system after the engine call m.
Commit(m) ==
    /\ manifests' = m.fs.manifests
    /\ modelDirs' = m.fs.modelDirs
    /\ blobs' = m.fs.blobs
    /\ files' = m.fs.files
    /\ tmpDirs' = m.fs.tmpDirs
    /\ nops' = nops + 1
    /\ UNCHANGED <<gui, threads>>

\* In the actions below an engine call is evaluated once and named by
\* \E m \in {call}; whole is the call with an always-continue callback, which
\* tells how many calls of the callback there are to answer.

\* A front end exports a variant: export_model on one of the store's manifest
\* files, with the variant's name and tag; the callback, if there is one,
\* answers False on none or on one of the calls the export makes.
Export ==
    /\ nops < MaxOps
    /\ \E manifest_file \in ManifestPaths(FS), output_path \in OutputPaths,
          fault \in {NoFault} \cup ExportFaults :
        \E whole \in {export_model([FS EXCEPT !.fault = fault], manifest_file, manifest_file.name,
                                  manifest_file.tag, output_path, Always)} :
        \E cb \in Callbacks(fault, whole.calls) :
            \E m \in {IF cb = Always THEN whole
                     ELSE export_model([FS EXCEPT !.fault = fault], manifest_file,
                                       manifest_file.name, manifest_file.tag,
                                       output_path, cb)} :
            /\ Commit(m)
            /\ last' = [op |-> "export", ret |-> m.ret, reports |-> m.reports,
                        fault |-> fault,
                        refused |-> m.refused, seen |-> m.seen,
                        manifest_file |-> manifest_file,
                        model_name |-> manifest_file.name,
                        param_size |-> manifest_file.tag,
                        output_path |-> output_path]

\* What is at library/<model_name>/<param_size> for delete_model to read: the
\* bytes of the file, Garbage when there is no file.
DeletedManifest(fs, model_name, param_size) ==
    IF IsFile(fs, ManifestPath(model_name, param_size, ""))
    THEN ReadFile(fs, ManifestPath(model_name, param_size, ""))
    ELSE Garbage

\* A front end deletes a variant by its name and tag.
Delete ==
    /\ nops < MaxOps
    /\ \E model_name \in Names, param_size \in Tags, fault \in {NoFault} \cup DeleteFaults :
        \E whole \in {delete_model([FS EXCEPT !.fault = fault], model_name, param_size, Always)} :
        \E cb \in Callbacks(fault, whole.calls) \cup
                  (IF fault = NoFault THEN CancelFrom(whole.calls) ELSE {}) :
            \E m \in {IF cb = Always THEN whole
                     ELSE delete_model([FS EXCEPT !.fault = fault], model_name, param_size, cb)} :
            /\ Commit(m)
            /\ last' = [op |-> "delete", ret |-> m.ret, reports |-> m.reports,
                        fault |-> fault,
                        refused |-> m.refused,
                        model_name |-> model_name, param_size |-> param_size,
                        manifest |-> DeletedManifest(FS, model_name, param_size)]

\* A front end lists the models; glob gives the entries in some order.
List ==
    /\ nops < MaxOps
    /\ \E order \in Orders(FS) :
          last' = [op |-> "list", ret |-> list_models_in(FS, order), order |-> order]
    /\ nops' = nops + 1
    /\ UNCHANGED <<manifests, modelDirs, blobs, files, tmpDirs, gui, threads>>

\* A front end imports an archive file: one of the files there are, or the
\* path an export writes to, whether or not a file is there.
Import ==
    /\ nops < MaxOps
    /\ \E archive_path \in OutputPaths \cup DOMAIN files, custom_name \in CustomNames :
        \E whole \in {import_model(FS, archive_path, custom_name, Always)} :
        \E cb \in {NoCallback} \cup CancelOnce(whole.calls) :
            \E m \in {IF cb = Always THEN whole
                     ELSE import_model(FS, archive_path, custom_name, cb)} :
            /\ Commit(m)
            /\ last' = [op |-> "import", ret |-> m.ret, reports |-> m.reports,
                        refused |-> m.refused,
                        archive_path |-> archive_path, custom_name |-> custom_name,
                        model_name |-> m.model_name, param_size |-> m.param_size]

Next == Export \/ Import \/ Delete \/ List

Spec == Init /\ [][Next]_vars

---------------------------------------------------------------------------
(* The command line front end: OllamaCLI and main *)

\* `return 0`, `return 0 if success else 1`
ExitDone == 0
\* `return 1`, and the status with which the interpreter ends on an exception
\* that leaves main (any but KeyboardInterrupt)
ExitFailed == 1
\* `except KeyboardInterrupt: ... sys.exit(130)`
ExitInterrupted == 130

\* `print(f"Error: Could not find manifest for model {model_name}:{param_size}")`
ErrManifestNotFound == "Error: Could not find manifest"
\* `print(f"Error: File not found: {archive_path}")`
ErrFileNotFound == "Error: File not found"
\* "Export cancelled." and "Deletion cancelled.": the prompt was not answered y or yes
Declined == "cancelled at the prompt"
\* "Please specify a command. Use --help for more information."
NoCommand == "Please specify a command"
\* Ctrl-C: KeyboardInterrupt is raised in main
KeyboardInterrupt == "raise KeyboardInterrupt"

\* `confirm.lower() not in ('y', 'yes')`
Confirms(answer) == answer \in {"y", "yes"}

\* OllamaCLI.export_model: the manifest file is looked up in list_models()
\* and then at the direct path, both by the same fallback; the engine is
\* called with OllamaCLI.progress_callback, which always answers True.
cli_export_model(fs, model_name, param_size, output_path) ==
    LET found == IF <<model_name, param_size>> \in DOMAIN fs.manifests
                 THEN ManifestFileOf(fs, model_name, param_size) ELSE {} IN
    IF found = {} THEN Return(Start(fs), ErrManifestNotFound)
    ELSE export_model(fs, CHOOSE mf \in found : TRUE, model_name, param_size,
                      output_path, Always)

\* OllamaCLI.import_model
cli_import_model(fs, archive_path, custom_name) ==
    IF archive_path \notin DOMAIN fs.files THEN Return(Start(fs), ErrFileNotFound)
    ELSE import_model(fs, archive_path, custom_name, Always)

\* OllamaCLI.delete_model: the deletion is confirmed at a prompt
cli_delete_model(fs, model_name, param_size, answer) ==
    IF ~Confirms(answer) THEN Return(Start(fs), Declined)
    ELSE delete_model(fs, model_name, param_size, Always)

\* A variant of ExitStatus that ends with 0 whatever the command returned.
\* The exit code property C24 tells the two apart.
ExitStatusAlwaysDone(m) == [exit |-> ExitDone, fs |-> m.fs, ret |-> m.ret]

\* `return 0 if success else 1` where success is `not error`; an exception of
\* the engine leaves main and the interpreter ends with status 1.
ExitStatus(m) ==
    [exit |-> IF m.ret = Success THEN ExitDone ELSE ExitFailed, fs |-> m.fs, ret |-> m.ret]

\* main(): the command of the arguments is run; answer is what is typed at a
\* prompt, if there is one.
main(fs, args, answer) ==
    IF args.command = "list" THEN [exit |-> ExitDone, fs |-> fs, ret |-> Success]
    ELSE IF args.command = "export"
    THEN IF args.output_path \in DOMAIN fs.files /\ ~args.force /\ ~Confirms(answer)
         THEN [exit |-> ExitFailed, fs |-> fs, ret |-> Declined]
         ELSE ExitStatus(cli_export_model(fs, args.model, args.parameter_size,
                                          args.output_path))
    ELSE IF args.command = "import"
    THEN ExitStatus(cli_import_model(fs, args.archive_path, args.name))
    ELSE IF args.command = "delete"
    THEN IF args.force
         THEN ExitStatus(delete_model(fs, args.model, args.parameter_size, Always))
         ELSE ExitStatus(cli_delete_model(fs, args.model, args.parameter_size, answer))
    ELSE [exit |-> ExitFailed, fs |-> fs, ret |-> NoCommand]

\* `try: sys.exit(main()) except KeyboardInterrupt: sys.exit(130)`.  An
\* interrupt is taken where main first waits or prints, before the engine is
\* called, so that the file system is what it was.
Process(fs, args, answer, interrupt) ==
    IF interrupt THEN [exit |-> ExitInterrupted, fs |-> fs, ret |-> KeyboardInterrupt]
    ELSE main(fs, args, answer)

\* The arguments parse_arguments() accepts: a command with its arguments, or
\* no command.
Arguments(fs) ==
    {[command |-> "list"], [command |-> "none"]} \cup
    {[command |-> "export", model |-> n, parameter_size |-> t, output_path |-> p,
      force |-> f] : n \in Names, t \in Tags, p \in OutputPaths, f \in BOOLEAN} \cup
    {[command |-> "import", archive_path |-> p, name |-> c] :
        p \in OutputPaths \cup DOMAIN fs.files, c \in CustomNames} \cup
    {[command |-> "delete", model |-> n, parameter_size |-> t, force |-> f] :
        n \in Names, t \in Tags, f \in BOOLEAN}

\* A run of the command line tool, from its start to its exit.
Main ==
    /\ nops < MaxOps
    /\ \E args \in Arguments(FS), answer \in {"y", "n"}, interrupt \in BOOLEAN :
        \E run \in {Process(FS, args, answer, interrupt)} :
            /\ Commit(run)
            /\ last' = [op |-> "main", args |-> args, answer |-> answer,
                        interrupt |-> interrupt, exit |-> run.exit, ret |-> run.ret]

\* The store under runs of the command line tool.
CliSpec == Init /\ [][Main]_vars

---------------------------------------------------------------------------
(* The graphical front end: OllamaGUI of src/ollama_gui.py and its worker  *)
(* threads (src/ollama_side6.py has the same handlers).  The front-end     *)
(* thread runs one handler at a time; a worker thread takes one step at a  *)
(* time: its first put, each call of its progress_callback, and what       *)
(* follows the return of the engine.  The engine's changes of the file     *)
(* system are taken together with that last step.                          *)

\* The window after __init__: create_widgets and refresh_models.
Window(fs) ==
    [open |-> TRUE,
     active_operation |-> FALSE,
     cancel_requested |-> FALSE,
     tab_buttons |-> TRUE,       \* Export Model, Import Model, Browse...
     refresh_btn |-> TRUE,
     delete_btn |-> FALSE,
     selectmode |-> "browse",
     queue |-> << >>,
     model_data |-> list_models(fs)]

\* self.queue.put(("update_status", (msg, pct)))
UpdateStatus(msg, pct) == [task |-> "update_status", msg |-> msg, pct |-> pct]
\* self.queue.put(("show_info", (msg,))), self.queue.put(("show_error", (msg,)))
ShowMessage(task, msg) == [task |-> task, msg |-> msg]
\* self.queue.put(("refresh_models", ()))
RefreshModels == [task |-> "refresh_models"]

start_operation(g) ==
    [g EXCEPT !.active_operation = TRUE, !.cancel_requested = FALSE,
              !.tab_buttons = FALSE, !.selectmode = "none",
              !.refresh_btn = FALSE, !.delete_btn = FALSE]

end_operation(g) ==
    [g EXCEPT !.active_operation = FALSE, !.tab_buttons = TRUE,
              !.selectmode = "browse", !.refresh_btn = TRUE]

\* update_status(message, progress): `if progress < 100:` the operation is
\* started unless it is active, `else:` it is ended.
update_status(g, msg, pct) ==
    IF pct[1] < 100 * pct[2]
    THEN IF g.active_operation THEN g ELSE start_operation(g)
    ELSE end_operation(g)

\* refresh_models(): the model view is read again from the store.  (The
\* stores of the window hold only manifests that list_models lists, so
\* try_manual_detection finds nothing more.)
refresh_models(g, fs) == [g EXCEPT !.model_data = list_models(fs)]

RECURSIVE Dispatch(_, _, _)
\* The loop of check_queue over the entries q taken from the queue.
Dispatch(g, fs, q) ==
    IF q = << >> THEN g
    ELSE LET e == Head(q)
             h == IF e.task = "update_status" THEN update_status(g, e.msg, e.pct)
                  ELSE IF e.task = "refresh_models" THEN refresh_models(g, fs)
                  ELSE g IN     \* show_error, show_info: a message box
         Dispatch(h, fs, Tail(q))

\* check_queue(): `while True: task, args = self.queue.get_nowait() ...`
check_queue(g, fs) == Dispatch([g EXCEPT !.queue = << >>], fs, g.queue)

\* cancel_operation()
cancel_operation(g) ==
    IF g.active_operation
    THEN update_status([g EXCEPT !.cancel_requested = TRUE], "Cancelling operation", <<0, 1>>)
    ELSE g

\* A worker thread that has been started: threading.Thread(target=self._<op>_thread, args=...)
Thread(op, args) == [op |-> op, args |-> args, pc |-> "start", calls |-> 0, refused |-> {}]

\* The progress_callback of a worker as the engine has met it so far: it has
\* answered False on the calls of w.refused, when cancel_requested was set.
ThreadCallback(w) ==
    IF w.refused = {} THEN Always
    ELSE Callback(CHOOSE k \in w.refused : \A j \in w.refused : k <= j,
                  Cardinality(w.refused) > 1)

\* The engine call of a worker: self.manager.export_model(...), import_model(...),
\* delete_model(...) with the worker's progress_callback.
ThreadRun(fs, w) ==
    IF w.op = "export"
    THEN export_model(fs, w.args.manifest_file, w.args.model_name, w.args.param_size,
                      w.args.output_path, ThreadCallback(w))
    ELSE IF w.op = "import"
    THEN import_model(fs, w.args.archive_path, w.args.custom_name, ThreadCallback(w))
    ELSE delete_model(fs, w.args.model_name, w.args.param_size, ThreadCallback(w))

\* The variant is taken out of self.model_data (the `else:` branch of _delete_thread).
ForgetVariant(model_data, model_name, param_size) ==
    IF model_name \notin DOMAIN model_data THEN model_data
    ELSE LET rest == {v \in model_data[model_name] : v.parameter_size # param_size} IN
         IF rest = {} THEN Remove(model_data, model_name)
         ELSE Put(model_data, model_name, rest)

\* A variant of the end of a worker in which a cancelled operation is only
\* announced: no last status of 100 is put on the queue.
ThreadResultWithoutLastStatus(g, w, ret) ==
    LET put(q, task, msg) ==
            Append(Append(q, ShowMessage(task, msg)), UpdateStatus(msg, <<100, 1>>)) IN
    IF ret \in Raised THEN [g EXCEPT !.queue = put(@, "show_error", "failed")]
    ELSE IF g.cancel_requested
    THEN [g EXCEPT !.queue = Append(@, ShowMessage("show_info", "cancelled"))]
    ELSE IF ret # Success THEN [g EXCEPT !.queue = put(@, "show_error", "failed")]
    ELSE IF w.op = "export" THEN [g EXCEPT !.queue = put(@, "show_info", "complete")]
    ELSE IF w.op = "import"
    THEN [g EXCEPT !.queue = Append(put(@, "show_info", "complete"), RefreshModels)]
    ELSE [g EXCEPT !.model_data = ForgetVariant(@, w.args.model_name, w.args.param_size),
                   !.queue = Append(put(@, "show_info", "complete"), RefreshModels)]

\* What a worker does after the engine call has returned `error` (or raised):
\* the cancellation flag is read again, the result is put on the queue, and
\* _delete_thread takes a deleted variant out of self.model_data.
ThreadResult(g, w, ret) ==
    LET put(q, task, msg) ==
            Append(Append(q, ShowMessage(task, msg)), UpdateStatus(msg, <<100, 1>>)) IN
    IF ret \in Raised THEN [g EXCEPT !.queue = put(@, "show_error", "failed")]
    ELSE IF g.cancel_requested THEN [g EXCEPT !.queue = put(@, "show_info", "cancelled")]
    ELSE IF ret # Success THEN [g EXCEPT !.queue = put(@, "show_error", "failed")]
    ELSE IF w.op = "export" THEN [g EXCEPT !.queue = put(@, "show_info", "complete")]
    ELSE IF w.op = "import"
    THEN [g EXCEPT !.queue = Append(put(@, "show_info", "complete"), RefreshModels)]
    ELSE [g EXCEPT !.model_data = ForgetVariant(@, w.args.model_name, w.args.param_size),
                   !.queue = Append(put(@, "show_info", "complete"), RefreshModels)]

\* The manifest file the export handler finds: in self.model_data, else at
\* the direct path with the fallback of the legacy structure.
GuiManifestFile(g, fs, model_name, param_size) ==
    LET listed == IF model_name \notin DOMAIN g.model_data THEN {}
                  ELSE {v.manifest_file : v \in {v \in g.model_data[model_name] :
                                                  v.parameter_size = param_size}} IN
    IF listed # {} THEN listed
    ELSE IF <<model_name, param_size>> \in DOMAIN fs.manifests
    THEN ManifestFileOf(fs, model_name, param_size)
    ELSE {}

\* A handler starts a worker: update_status(..., 0), thread.start().
StartThread(g, w) ==
    /\ gui' = update_status(g, "Starting", <<0, 1>>)
    /\ threads' = Append(threads, w)
    /\ nops' = nops + 1
    /\ UNCHANGED <<manifests, modelDirs, blobs, files, tmpDirs, last>>

\* The Export Model button: OllamaGUI.export_model.
ClickExport ==
    /\ nops < MaxOps
    /\ gui.tab_buttons
    /\ \E model_name \in Names, param_size \in Tags, output_path \in OutputPaths :
        \E manifest_file \in GuiManifestFile(gui, FS, model_name, param_size) :
            StartThread(gui, Thread("export",
                [manifest_file |-> manifest_file, model_name |-> model_name,
                 param_size |-> param_size, output_path |-> output_path]))

\* The Import Model button: OllamaGUI.import_model.
ClickImport ==
    /\ nops < MaxOps
    /\ gui.tab_buttons
    /\ \E archive_path \in DOMAIN files, custom_name \in {<< >>} :
            StartThread(gui, Thread("import",
                [archive_path |-> archive_path, custom_name |-> custom_name]))

\* A row of the model view is selected: on_tree_select enables Delete Model.
SelectRow ==
    /\ gui.selectmode = "browse"
    /\ ~gui.delete_btn
    /\ DOMAIN gui.model_data # {}
    /\ gui' = [gui EXCEPT !.delete_btn = TRUE]
    /\ UNCHANGED <<manifests, modelDirs, blobs, files, tmpDirs, last, nops, threads>>

\* The Delete Model button, confirmed: OllamaGUI.delete_model for the
\* selected row.
ClickDelete ==
    /\ nops < MaxOps
    /\ gui.delete_btn
    /\ \E model_name \in DOMAIN gui.model_data :
        \E v \in gui.model_data[model_name] :
            StartThread([gui EXCEPT !.delete_btn = FALSE],
                        Thread("delete", [model_name |-> model_name,
                                          param_size |-> v.parameter_size]))

\* The Cancel button, which is there while an operation is active.
ClickCancel ==
    /\ gui.active_operation
    /\ ~gui.cancel_requested
    /\ gui' = cancel_operation(gui)
    /\ UNCHANGED <<manifests, modelDirs, blobs, files, tmpDirs, last, nops, threads>>

\* The timer of the front-end thread: check_queue, when there is something
\* in the queue.
CheckQueue ==
    /\ gui.queue # << >>
    /\ gui' = check_queue(gui, FS)
    /\ UNCHANGED <<manifests, modelDirs, blobs, files, tmpDirs, last, nops, threads>>

\* The first step of a worker: the status "Starting ..." is put on the queue.
ThreadBegin ==
    \E i \in 1..Len(threads) :
        /\ threads[i].pc = "start"
        /\ threads' = [threads EXCEPT ![i].pc = "engine"]
        /\ gui' = [gui EXCEPT !.queue = Append(@, UpdateStatus("Starting", <<0, 1>>))]
        /\ UNCHANGED <<manifests, modelDirs, blobs, files, tmpDirs, last, nops>>

\* The engine of worker i, which runs as `run`, calls progress_callback(msg, pct):
\* `if self.cancel_requested: return False`, else the report is put on the
\* queue and the answer is True.
ThreadCallbackCalled(i, run) ==
    /\ threads[i].calls < Len(run.reports)
    /\ LET k == threads[i].calls + 1 IN
       IF gui.cancel_requested
       THEN /\ threads' = [threads EXCEPT ![i].calls = k, ![i].refused = @ \cup {k}]
            /\ gui' = gui
       ELSE /\ threads' = [threads EXCEPT ![i].calls = k]
            /\ gui' = [gui EXCEPT !.queue =
                         Append(@, UpdateStatus(run.reports[k].msg, run.reports[k].pct))]
    /\ UNCHANGED <<manifests, modelDirs, blobs, files, tmpDirs, last, nops>>

\* The engine call of worker i returns (or raises), the worker puts the
\* result on the queue and the thread ends.
ThreadReturn(i, run) ==
    /\ threads[i].calls >= Len(run.reports)
    /\ manifests' = run.fs.manifests
    /\ modelDirs' = run.fs.modelDirs
    /\ blobs' = run.fs.blobs
    /\ files' = run.fs.files
    /\ tmpDirs' = run.fs.tmpDirs
    /\ gui' = ThreadResult(gui, threads[i], run.ret)
    /\ threads' = [j \in 1..(Len(threads) - 1) |->
                      IF j < i THEN threads[j] ELSE threads[j + 1]]
    /\ UNCHANGED <<last, nops>>

\* A worker that is in its engine call takes its next step.
ThreadEngine ==
    \E i \in {j \in 1..Len(threads) : threads[j].pc = "engine"} :
        \E run \in {ThreadRun(FS, threads[i])} :
            ThreadCallbackCalled(i, run) \/ ThreadReturn(i, run)

\* The stores the window is opened on: the variant alpha:7b, whose manifest
\* has a config and no layer, with its blob, and no archive file or a whole
\* archive of such a variant from elsewhere.
GuiInit ==
    /\ manifests = (<<"alpha", "7b">> :> FileEntry(Sized(Sha("cc"), << >>, 1)))
    /\ modelDirs = {"alpha"}
    /\ blobs = [f \in {BlobFilename(Sha("cc"))} |-> OriginalBytes(f)]
    /\ \E archive \in {TarFile(<<[name |-> MetadataName,
                                 content |-> MetadataDoc("beta", "7b", <<"beta">>)],
                                [name |-> ManifestName,
                                 content |-> Sized(Sha("cc"), << >>, 1)]>>
                              \o BlobMembers(<<Sha("cc")>>))} :
          files \in {NoFiles, [p \in OutputPaths |-> archive]}
    /\ tmpDirs = {}
    /\ last = [op |-> "none"]
    /\ nops = 0
    /\ gui = Window(FS)
    /\ threads = << >>

GuiNext ==
    \/ ClickExport \/ ClickImport \/ SelectRow \/ ClickDelete \/ ClickCancel
    \/ CheckQueue \/ ThreadBegin \/ ThreadEngine

\* The window, its user and its worker threads.
GuiSpec == GuiInit /\ [][GuiNext]_vars

\* The window opened on the store without an archive file.
GuiLiveInit == GuiInit /\ files = NoFiles

\* The window when the timer of check_queue keeps firing and every worker
\* thread keeps running: its puts do not block and its engine call returns.
\* (The last conjunct is WF_vars(ThreadEngine), with ENABLED written out: a
\* step of ThreadEngine is possible exactly when a worker is in its engine
\* call.)
GuiLiveSpec ==
    /\ GuiLiveInit
    /\ [][GuiNext]_vars
    /\ WF_vars(CheckQueue)
    /\ WF_vars(ThreadBegin)
    /\ \/ []<>(\A i \in 1..Len(threads) : threads[i].pc # "engine")
       \/ []<><<ThreadEngine>>_vars

\* No worker is in flight, the queue is empty, and the window is as
\* end_operation leaves it.
Ended ==
    /\ threads = << >>
    /\ gui.queue = << >>
    /\ ~gui.active_operation
    /\ gui.tab_buttons /\ gui.refresh_btn /\ gui.selectmode = "browse"

---------------------------------------------------------------------------
(* What the claims speak of *)

\* The engine call that has just returned is an export, import or delete.
Called(op) == last.op = op
\* This step is an engine call of the kind op.
Calls(op) == nops' = nops + 1 /\ last'.op = op

\* The manifest an export has read.  export_model leaves the store as it was
\* (C9), so after the call the file still has the bytes the call has read.
ExportedManifest == ReadFile(FS, last.manifest_file)

\* The export that has just returned read a manifest that is a JSON object.
ExportedObject ==
    /\ Called("export")
    /\ IsFile(FS, last.manifest_file)
    /\ ExportedManifest.kind = "object"

\* The names of the members of an archive file.
MemberNames(file) == {file.members[i].name : i \in 1..Len(file.members)}

\* The blob file names a manifest refers to.
BlobsOf(manifest) == {BlobFilename(d) : d \in Referenced(manifest)}

\* The callback answered False on a call whose message is one of msgs.
RefusedAt(call, msgs) == \E k \in call.refused : call.reports[k].msg \in msgs

\* The messages of the checkpoints of export_model before "Export complete".
ExportCheckpoints ==
    {"Copying", "Copied", "Copying config", "Copied config", "Creating archive",
     "Adding to archive"}

\* The files of an archive once every member is extracted: a later member of
\* the same name replaces an earlier one.
Extracted(file) ==
    [n \in MemberNames(file) |->
        file.members[CHOOSE i \in 1..Len(file.members) :
                        /\ file.members[i].name = n
                        /\ \A j \in 1..Len(file.members) :
                              file.members[j].name = n => j <= i].content]

\* The import that has just returned read, from an archive it could extract,
\* a manifest that is a JSON object, and the callback never answered False.
ImportedObject ==
    /\ Called("import")
    /\ last.refused = {}
    /\ last.archive_path \in DOMAIN files
    /\ files[last.archive_path].kind = "tar"
    /\ ManifestName \in MemberNames(files[last.archive_path])
    /\ Extracted(files[last.archive_path])[ManifestName].kind = "object"

\* The archive has no metadata.json or one that is a JSON object, so that the
\* import goes on to install the manifest and the blobs.
ImportedMetadataReadable ==
    MetadataName \in MemberNames(files[last.archive_path]) =>
        LET metadata == Extracted(files[last.archive_path])[MetadataName] IN
        JsonLoads(metadata) /\ IsDict(metadata)

\* The manifest of the archive an import has read.
ImportedManifest == Extracted(files[last.archive_path])[ManifestName]

---------------------------------------------------------------------------
(* The claims *)

\* C1 (as claimed; the code breaks it): whenever export_model returns success,
\* the output archive has a blob member for every digest the manifest refers
\* to, the config digest and every layer digest.
C1_SuccessfulExportHoldsEveryBlob ==
    (Called("export") /\ last.ret = Success) =>
        BlobsOf(ExportedManifest) \subseteq MemberNames(files[last.output_path])

\* C2 (as claimed; the code breaks it): for a manifest whose config blob and
\* layer blobs all exist in blobs_dir, export_model with a callback that always
\* answers continue succeeds and the archive has a blob member for every
\* digest of the manifest.
C2_ExportOfCompleteVariantSucceeds ==
    (/\ ExportedObject
     /\ last.refused = {}
     /\ BlobsOf(ExportedManifest) \subseteq DOMAIN blobs) =>
        /\ last.ret = Success
        /\ BlobsOf(ExportedManifest) \subseteq MemberNames(files[last.output_path])

\* C3 (as claimed; the code breaks it): an export the callback does not cancel
\* fails with "Blob file not found" if and only if some digest of the manifest,
\* the config's or a layer's, has no blob file in blobs_dir.
C3_BlobMissingIffSomeBlobAbsent ==
    (ExportedObject /\ last.refused = {}) =>
        (last.ret = ErrBlobNotFound <=>
            ~ (BlobsOf(ExportedManifest) \subseteq DOMAIN blobs))

\* C4 (as claimed; the code breaks it): round trip.  When an export has
\* succeeded and the archive it wrote is imported next, neither call
\* cancelled, the destination variant holds a manifest equal to the exported
\* one and every blob that manifest refers to is in blobs_dir with the bytes
\* of the source blob.
C4_RoundTrip ==
    [][(/\ Called("export") /\ last.ret = Success /\ last.refused = {}
        /\ Calls("import") /\ last'.refused = {}
        /\ last'.archive_path = last.output_path) =>
           /\ \E mf \in ManifestFileOf(FS', last'.model_name, last'.param_size) :
                 ReadFile(FS', mf) = ExportedManifest
           /\ \A f \in BlobsOf(ExportedManifest) :
                 /\ f \in DOMAIN blobs
                 /\ f \in DOMAIN blobs'
                 /\ blobs'[f] = blobs[f]]_vars

\* C5 (as claimed; the code breaks it): whenever import_model returns success,
\* every digest of the imported manifest, the config's and every layer's, has
\* a blob file in blobs_dir.
C5_SuccessfulImportHasEveryBlob ==
    (Called("import") /\ last.ret = Success) =>
        BlobsOf(ImportedManifest) \subseteq DOMAIN blobs

\* C6 (as claimed; refuted): if the callback answers False at any checkpoint of
\* export_model, the 100% report included, then after the call neither the
\* output file nor the export working directory exists.
C6_AnyCancelLeavesNothing ==
    (Called("export") /\ last.refused # {}) =>
        /\ last.output_path \notin DOMAIN files
        /\ ExportTempDir(last.model_name, last.param_size) \notin tmpDirs

\* C6 (amended): if the callback answers False at a checkpoint of export_model
\* before the 100% report, the call returns cancelled, the working directory
\* does not exist afterwards and no output of the call exists: the output file
\* is removed when archiving had begun, and the output path is left as it was
\* (absent, or an older file) when it had not.  A False at the 100% report is
\* passed over: the call returns success and the archive stays.
C6_CancelBeforeCompleteLeavesNoOutput ==
    [][Calls("export") =>
         /\ RefusedAt(last', ExportCheckpoints) =>
               /\ last'.ret = Cancelled
               /\ ExportTempDir(last'.model_name, last'.param_size) \notin tmpDirs'
               /\ IF RefusedAt(last', {"Adding to archive"})
                  THEN last'.output_path \notin DOMAIN files'
                  ELSE files' = files
         /\ RefusedAt(last', {"Export complete"}) =>
               /\ last'.ret = Success
               /\ last'.output_path \in DOMAIN files']_vars

\* C6 (witness): an export was cancelled while it added blobs to the archive.
C6_CancelledWhileArchiving ==
    /\ Called("export")
    /\ last.ret = Cancelled
    /\ RefusedAt(last, {"Adding to archive"})
    /\ last.output_path \notin DOMAIN files

\* The variants list_models gives for a name (none when the name is not listed).
Listed(fs, model_name) ==
    IF model_name \in DOMAIN list_models(fs) THEN list_models(fs)[model_name] ELSE {}

\* The tags list_models gives for a name.
ListedTags(fs, model_name) == {v.parameter_size : v \in Listed(fs, model_name)}

\* C7 (as claimed; refuted): after delete_model(name, tag) returns success,
\* list_models() has no variant (name, tag); if (name, tag) was the only
\* variant of name, name is not in the result and library/<name> is gone.
C7_DeletedVariantAndEmptyModelGone ==
    [][(Calls("delete") /\ last'.ret = Success) =>
         /\ last'.param_size \notin ListedTags(FS', last'.model_name)
         /\ ListedTags(FS, last'.model_name) = {last'.param_size} =>
               /\ last'.model_name \notin DOMAIN list_models(FS')
               /\ last'.model_name \notin modelDirs']_vars

\* C7 (amended): after delete_model(name, tag) returns success, list_models()
\* has no variant (name, tag); if library/<name> held no other entry, name is
\* not in the result and the directory is gone; if it held another entry, a
\* variant or not, the directory stays.
C7_DeletedVariantGoneDirIfEmpty ==
    [][(Calls("delete") /\ last'.ret = Success) =>
         /\ last'.param_size \notin ListedTags(FS', last'.model_name)
         /\ <<last'.model_name, last'.param_size>> \notin DOMAIN manifests'
         /\ IF {k \in DOMAIN manifests : k[1] = last'.model_name}
                  = {<<last'.model_name, last'.param_size>>}
            THEN /\ last'.model_name \notin DOMAIN list_models(FS')
                 /\ last'.model_name \notin modelDirs'
            ELSE last'.model_name \in modelDirs']_vars

\* C7 (witness): a delete has succeeded and removed the model directory.
C7_DeletedLastVariant ==
    /\ Called("delete")
    /\ last.ret = Success
    /\ last.model_name \notin modelDirs

\* What an engine call hands back to its caller: success, a failure with its
\* message, or a cancellation.
Outcomes ==
    {Success, Cancelled, CompletedButCancelled, ErrReadingManifest, ErrBlobNotFound,
     ErrCreatingArchive, ErrArchiveNotFound, ErrExtractingArchive, ErrNoManifest,
     ErrReadingMetadata, ErrCopyingManifest, ErrBlobNotInArchive, ErrModelNotFound,
     ErrDeletingManifest}

\* C8 (as claimed; the code breaks it): every call of export_model, import_model
\* and delete_model ends with one outcome handed to the caller, whatever the
\* manifest, the blobs present and the callback; none ends by an exception.
C8_EveryCallReturnsAnOutcome ==
    (Called("export") \/ Called("import") \/ Called("delete")) =>
        last.ret \in Outcomes

\* C9: export_model never changes the store: whatever the call returns, the
\* manifest entries, the model directories and the blob files with their
\* bytes are after the call what they were before it.
C9_ExportLeavesStoreUnchanged ==
    [][Calls("export") =>
         /\ manifests' = manifests
         /\ modelDirs' = modelDirs
         /\ blobs' = blobs]_vars

\* C9 (witness): an export has succeeded and put blobs of the store in its archive.
C9_ExportedFromStore ==
    /\ Called("export")
    /\ last.ret = Success
    /\ \E f \in DOMAIN blobs : f \in MemberNames(files[last.output_path])

\* C10 (as claimed; the code breaks it): in import_model, if a blob the
\* archive's manifest refers to, the config's or a layer's, is not in the
\* extracted archive, the import fails with "Blob file not found in archive".
C10_AbsentBlobFailsImport ==
    (/\ ImportedObject
     /\ ImportedMetadataReadable
     /\ ~ (BlobsOf(ImportedManifest) \subseteq MemberNames(files[last.archive_path]))) =>
        last.ret = ErrBlobNotInArchive

\* This step is an import, never refused by its callback, of a file that
\* opens as a tar archive.
ImportsArchive ==
    /\ Calls("import")
    /\ last'.refused = {}
    /\ last'.archive_path \in DOMAIN files
    /\ files[last'.archive_path].kind = "tar"

\* C11: import_model of an archive that has no member named manifest fails
\* with "No manifest file found in archive", its working directory does not
\* exist afterwards, and the manifest entries, the model directories and the
\* blobs are what they were before the call.
C11_NoManifestMemberFailsAndChangesNothing ==
    [][(ImportsArchive
        /\ ManifestName \notin MemberNames(files[last'.archive_path])) =>
           /\ last'.ret = ErrNoManifest
           /\ ImportTempDir(last'.archive_path) \notin tmpDirs'
           /\ manifests' = manifests
           /\ modelDirs' = modelDirs
           /\ blobs' = blobs]_vars

\* C11 (witness): an import of an archive with members but no manifest among
\* them has failed for the missing manifest.
C11_ImportedWithoutManifest ==
    /\ Called("import")
    /\ last.ret = ErrNoManifest
    /\ files[last.archive_path].members # << >>
    /\ ManifestName \notin MemberNames(files[last.archive_path])

\* The messages of the checkpoints of import_model before "Import complete".
ImportCheckpoints ==
    {"Extracting archive", "Extracting member", "Reading manifest", "Importing",
     "Copying config", "Copying layer"}

\* C12: if the callback answers False at a checkpoint of import_model before
\* the 100% report, import_model returns cancelled and its working directory
\* does not exist afterwards.  (What was copied before stays: see the witness.)
C12_CancelledImportRemovesWorkingDir ==
    (Called("import") /\ RefusedAt(last, ImportCheckpoints)) =>
        /\ last.ret = Cancelled
        /\ ImportTempDir(last.archive_path) \notin tmpDirs

\* C12 (witness): an import was cancelled while it copied the layer blobs; its
\* manifest and the config blob copied before the False are in the store.
C12_CancelledAfterManifestInstalled ==
    /\ Called("import")
    /\ last.ret = Cancelled
    /\ RefusedAt(last, {"Copying layer"})
    /\ <<last.model_name, last.param_size>> \in DOMAIN manifests
    /\ BlobFilename(GetConfigDigest(ImportedManifest)) \in DOMAIN blobs
    /\ blobs[BlobFilename(GetConfigDigest(ImportedManifest))]
          = ForeignBytes(BlobFilename(GetConfigDigest(ImportedManifest)))
    /\ ImportTempDir(last.archive_path) \notin tmpDirs

\* The files of the store, as paths, that hold the manifest of (name, tag): the
\* entry itself, or any file in the directory the entry is.
ManifestFilesAt(fs, model_name, param_size) ==
    {p \in ManifestPaths(fs) : p.name = model_name /\ p.tag = param_size}

\* C13: if the callback answers False only at the 100% report of
\* import_model, the effects of the import are all there afterwards: the
\* archive's manifest is at the destination, every blob of the manifest that
\* the archive holds is in blobs_dir with the archive's bytes, and the working
\* directory is gone.  The call returns "completed but cancelled".
C13_CancelAtCompleteKeepsEffects ==
    (Called("import") /\ RefusedAt(last, {"Import complete"})) =>
        /\ last.ret = CompletedButCancelled
        /\ \E p \in ManifestFilesAt(FS, last.model_name, last.param_size) :
              ReadFile(FS, p) = ImportedManifest
        /\ \A f \in BlobsOf(ImportedManifest) \cap MemberNames(files[last.archive_path]) :
              /\ f \in DOMAIN blobs
              /\ blobs[f] = Extracted(files[last.archive_path])[f]
        /\ ImportTempDir(last.archive_path) \notin tmpDirs

\* C13 (witness): an import into a store without the blobs was refused at its
\* 100% report only, after it had copied blobs.
C13_RefusedAtImportComplete ==
    /\ Called("import")
    /\ last.ret = CompletedButCancelled
    /\ last.refused = {Len(last.reports)}
    /\ \E f \in DOMAIN blobs : blobs[f] = ForeignBytes(f)

\* The import that has just returned got as far as choosing its destination:
\* the archive was extracted, its manifest and its metadata.json, if it has
\* one, were read, and the callback had not answered False by then.
ImportChoseDestination ==
    /\ Called("import")
    /\ last.archive_path \in DOMAIN files
    /\ files[last.archive_path].kind = "tar"
    /\ ManifestName \in MemberNames(files[last.archive_path])
    /\ JsonLoads(Extracted(files[last.archive_path])[ManifestName])
    /\ ImportedMetadataReadable
    /\ ~RefusedAt(last, {"Extracting archive", "Extracting member", "Reading manifest"})

\* The metadata.json of the archive an import has read (Garbage when it has none).
ImportedMetadata ==
    IF MetadataName \in MemberNames(files[last.archive_path])
    THEN Extracted(files[last.archive_path])[MetadataName]
    ELSE Garbage

\* The destination the import has used.
Destination == <<last.model_name, last.param_size>>

BaseName(path) ==
    IF Len(path) > 4 /\ SubSeq(path, Len(path) - 3, Len(path)) = <<".", "tar", ".", "gz">>
    THEN SubSeq(path, 1, Len(path) - 4)
    ELSE Stem(path)

\* A base name split on its last hyphen into <<name, tag>>; the whole name
\* with the tag "default" when it has no hyphen.
SplitOnLastHyphen(tokens) ==
    LET at == {i \in 1..Len(tokens) : tokens[i] = "-"} IN
    IF at = {} THEN <<Text(tokens), "default">>
    ELSE LET i == CHOOSE i \in at : \A j \in at : i >= j IN
         <<Text(SubSeq(tokens, 1, i - 1)), Text(SubSeq(tokens, i + 1, Len(tokens)))>>

\* The import that has just returned inferred its destination from the file
\* name: no custom name, and no metadata.json with both fields.
ImportInferredDestination ==
    /\ ImportChoseDestination
    /\ last.custom_name = << >>
    /\ \/ MetadataGet(ImportedMetadata, "model_name") = ""
       \/ MetadataGet(ImportedMetadata, "parameter_size") = ""

\* C15 (as claimed; the code breaks it): when import_model infers the
\* destination from the archive's base file name, it splits the base name on
\* its last hyphen: "alpha-7b" gives ("alpha", "7b"), a name with several
\* hyphens keeps all but the last segment in the name, and a name without a
\* hyphen gives the whole name with the tag "default".
C15_InferredBySplittingOnLastHyphen ==
    ImportInferredDestination =>
        Destination = SplitOnLastHyphen(BaseName(last.archive_path))

\* The entry a delete is asked to remove.
Deleted == <<last'.model_name, last'.param_size>>

C17_DeleteOfAbsentVariantIsNotFound ==
    [][(Calls("delete") /\ Deleted \notin DOMAIN manifests) =>
         /\ last'.ret = ErrModelNotFound
         /\ last'.reports = << >>
         /\ manifests' = manifests
         /\ modelDirs' = modelDirs
         /\ blobs' = blobs]_vars

\* C17 (witness): a delete has failed for a tag that the directory of its
\* model, which holds another variant and whose blobs exist, does not have.
C17_NotFoundBesideAnotherVariant ==
    /\ Called("delete")
    /\ last.ret = ErrModelNotFound
    /\ last.model_name \in modelDirs
    /\ \E k \in DOMAIN manifests : k[1] = last.model_name
    /\ blobs # << >>

\* C18: a blob that the manifest names and blobs_dir does not hold never
\* makes delete_model fail.  When the variant is there as a manifest file that
\* is a JSON object, the callback never answers False and no file operation
\* fails, delete_model succeeds and removes the manifest, whichever of the
\* blobs exist.
C18_DeleteSucceedsWhateverBlobsExist ==
    [][(/\ Calls("delete")
        /\ last'.refused = {}
        /\ last'.fault = NoFault
        /\ IsFile(FS, ManifestPath(last'.model_name, last'.param_size, ""))
        /\ last'.manifest.kind = "object") =>
           /\ last'.ret = Success
           /\ Deleted \notin DOMAIN manifests']_vars

\* C18 (witness): a delete with a callback has succeeded for a manifest that
\* names three blobs, of which it found (and reported) fewer than three.
C18_DeletedWithBlobsMissing ==
    /\ Called("delete")
    /\ last.ret = Success
    /\ last.reports # << >>
    /\ last.manifest = Typical
    /\ Cardinality({k \in 1..Len(last.reports) : last.reports[k].msg = "Deleting blob"}) < 3

\* The tags of the variants a list_models() result has for a name.
ReturnedTags(models, model_name) ==
    IF model_name \in DOMAIN models
    THEN {models[model_name][i].parameter_size : i \in 1..Len(models[model_name])}
    ELSE {}

\* The entry k has a manifest file whose bytes are JSON.
Parseable(fs, k) ==
    \E mf \in ManifestFileOf(fs, k[1], k[2]) : JsonLoads(ReadFile(fs, mf))

\* The entry k has a manifest file whose bytes are a JSON object.
ParsesToObject(fs, k) ==
    \E mf \in ManifestFileOf(fs, k[1], k[2]) :
        JsonLoads(ReadFile(fs, mf)) /\ IsDict(ReadFile(fs, mf))

WrittenEntries ==
    {k \in DOMAIN manifests' : k \notin DOMAIN manifests \/ manifests'[k] # manifests[k]}

\* C20 (as claimed; the code breaks it): whatever import, export or delete
\* the engine runs, a manifest it writes is a file at library/<name>/<tag>,
\* never a file one directory deeper, and afterwards there is at most one
\* manifest file for that (name, tag), also when the destination of an import
\* is there in the legacy form, as a directory.
C20_ManifestsWrittenInCanonicalForm ==
    [][\A k \in WrittenEntries :
          /\ manifests'[k].type = "file"
          /\ Cardinality(ManifestFilesAt(FS', k[1], k[2])) <= 1]_vars

\* C21 (as claimed; the code breaks it): the archive of a successful
\* export_model has exactly the members metadata.json, manifest and one member
\* per digest the manifest refers to, named by the blob file name, and no
\* member twice, also when the config and a layer, or two layers, share a
\* digest.
C21_ArchiveMembersExact ==
    (Called("export") /\ last.ret = Success) =>
        LET members == files[last.output_path].members IN
        /\ MemberNames(files[last.output_path])
              = {MetadataName, ManifestName} \cup BlobsOf(ExportedManifest)
        /\ \A i, j \in 1..Len(members) : members[i].name = members[j].name => i = j

\* The names of the blob members of an archive, in the order they were added:
\* the members after metadata.json and manifest.
BlobMemberNames(file) ==
    [i \in 1..(Len(file.members) - 2) |-> file.members[i + 2].name]

RECURSIVE LayerBlobNames(_)
\* The blob file names of the layers that have a sha256 digest, in manifest order.
LayerBlobNames(layers) ==
    IF layers = << >> THEN << >>
    ELSE (IF StartsWithSha256(Head(layers).digest)
          THEN <<BlobFilename(Head(layers).digest)>> ELSE << >>)
         \o LayerBlobNames(Tail(layers))

\* The blob file name of the config, when it has a sha256 digest and the blob
\* is in the store (a missing config blob is passed over).
ConfigBlobName(fs, manifest) ==
    IF /\ StartsWithSha256(GetConfigDigest(manifest))
       /\ BlobFilename(GetConfigDigest(manifest)) \in DOMAIN fs.blobs
    THEN <<BlobFilename(GetConfigDigest(manifest))>> ELSE << >>

\* Every report about a blob of the kind `first` comes before every report
\* about a blob of the kind `then`.
ReportedBefore(reports, first, then) ==
    \A i, j \in 1..Len(reports) :
        (reports[i].msg \in first /\ reports[j].msg \in then) => i < j

\* C25 (as claimed; refuted): a successful export_model stages and reports the
\* config blob first and then the layer blobs in manifest order, and the blob
\* members of the archive are in that order.
C25_ConfigFirstThenLayers ==
    (ExportedObject /\ last.ret = Success) =>
        /\ BlobMemberNames(files[last.output_path])
              = ConfigBlobName(FS, ExportedManifest)
                \o LayerBlobNames(GetLayers(ExportedManifest))
        /\ ReportedBefore(last.reports, {"Copying config", "Copied config"}, {"Copying", "Copied"})

\* C25 (amended): a successful export_model stages and reports the layer blobs
\* first, in manifest order, and the config blob after them, and the blob
\* members of the archive are in that order.
C25_LayersThenConfig ==
    (ExportedObject /\ last.ret = Success) =>
        /\ BlobMemberNames(files[last.output_path])
              = LayerBlobNames(GetLayers(ExportedManifest))
                \o ConfigBlobName(FS, ExportedManifest)
        /\ ReportedBefore(last.reports, {"Copying", "Copied"}, {"Copying config", "Copied config"})

\* C25 witness: an export with a callback of a variant with two layers and a
\* config, three different blobs, has succeeded.
C25_ExportedLayersAndConfig ==
    /\ ExportedObject
    /\ last.ret = Success
    /\ ExportedManifest = Typical
    /\ \E i \in 1..Len(last.reports) : last.reports[i].msg \in {"Copying config", "Copied config"}
    /\ Len(BlobMemberNames(files[last.output_path])) = 3

\* C26 (as claimed; the code breaks it): every percentage export_model reports
\* while it stages the blobs, once before and once after each copy, is
\* bytesCopiedSoFar / totalBytes scaled into the range 0 to 95, so at most 95.
C26_StagingPercentagesAtMost95 ==
    Called("export") =>
        \A i \in 1..Len(last.reports) :
            last.reports[i].msg \in {"Copying", "Copied", "Copying config", "Copied config"}
                => /\ last.reports[i].pct[1] >= 0
                   /\ last.reports[i].pct[1] <= 95 * last.reports[i].pct[2]

\* C27: on every successful export_model run with a callback the last report
\* has percentage 100 and is the only one of its message, and what the
\* callback finds when it is issued is the archive as the call leaves it
\* (metadata.json, the manifest and a member per blob added) and no working
\* directory.
C27_LastReportIs100AfterArchive ==
    (Called("export") /\ last.ret = Success /\ last.reports # << >>) =>
        LET final == last.reports[Len(last.reports)] IN
        /\ final = [msg |-> "Export complete", pct |-> <<100, 1>>]
        /\ \A i \in 1..(Len(last.reports) - 1) : last.reports[i].msg # "Export complete"
        /\ ExportTempDir(last.model_name, last.param_size) \notin last.seen.tmpDirs
        /\ last.output_path \in DOMAIN last.seen.files
        /\ last.seen.files[last.output_path] = files[last.output_path]
        /\ files[last.output_path].kind = "tar"
        /\ Len(files[last.output_path].members) = 2 +
              Len(SelectSeq(last.reports, LAMBDA r : r.msg = "Adding to archive"))

\* C27 witness: an export with a callback has succeeded, with blobs added to
\* the archive before the last report.
C27_ExportedWithReports ==
    /\ Called("export")
    /\ last.ret = Success
    /\ \E i \in 1..Len(last.reports) : last.reports[i].msg = "Adding to archive"
    /\ last.reports[Len(last.reports)].pct = <<100, 1>>

\* The manifest files list_models has returned for the entry k.
ListedFiles(k) ==
    IF k[1] \notin DOMAIN last.ret THEN {}
    ELSE {last.ret[k[1]][i].manifest_file :
            i \in {i \in 1..Len(last.ret[k[1]]) : last.ret[k[1]][i].parameter_size = k[2]}}

\* The file the fallback resolves the entry k to, as a set: the entry itself
\* when it is a file, else the first of <tag>, manifest, manifest.json that is
\* a file inside it, else nothing.
Resolved(fs, k) ==
    LET inside == IF fs.manifests[k].type = "dir" THEN DOMAIN fs.manifests[k].inside ELSE {} IN
    IF fs.manifests[k].type = "file" THEN {ManifestPath(k[1], k[2], "")}
    ELSE IF k[2] \in inside THEN {ManifestPath(k[1], k[2], k[2])}
    ELSE IF "manifest" \in inside THEN {ManifestPath(k[1], k[2], "manifest")}
    ELSE IF "manifest.json" \in inside THEN {ManifestPath(k[1], k[2], "manifest.json")}
    ELSE {}

\* C29: for each parameter entry list_models() resolves the manifest file by
\* ordered fallback (the entry itself when it is a file, else the first file
\* among <tag>, manifest, manifest.json inside the directory): a listed
\* variant names the resolved file and no other, the resolved file is listed
\* whenever it holds a JSON object, and an entry with none of these yields no
\* variant.
C29_ManifestByOrderedFallback ==
    Called("list") =>
        \A k \in DOMAIN manifests :
            /\ ListedFiles(k) \subseteq Resolved(FS, k)
            /\ \A mf \in Resolved(FS, k) :
                  (ReadFile(FS, mf).kind = "object") => mf \in ListedFiles(k)
            /\ Resolved(FS, k) = {} => ListedFiles(k) = {}

\* C29 witness: list_models has returned, for a directory entry that holds
\* the file named after the tag beside a different file manifest, the file
\* named after the tag; or, for one that holds manifest beside manifest.json,
\* the file manifest.
C29_ListedFirstOfSeveral ==
    /\ Called("list")
    /\ \E k \in DOMAIN manifests :
          /\ manifests[k].type = "dir"
          /\ \E first, second \in DOMAIN manifests[k].inside :
                /\ first # second
                /\ manifests[k].inside[first] # manifests[k].inside[second]
                /\ ListedFiles(k) = {ManifestPath(k[1], k[2], first)}

\* C28 (as claimed; the code breaks it): when a file operation of export_model
\* fails while it stages (writing metadata.json, copying the manifest,
\* copying a blob) or while it builds
\* the archive, export_model returns the failure "Error creating archive"
\* rather than raising, and neither the working directory nor an output file
\* is left.
C28_FilesystemErrorIsReturnedAndCleanedUp ==
    (/\ Called("export")
     /\ last.fault # NoFault
     /\ last.ret \in {RaisedOSError, ErrCreatingArchive}) =>
        /\ last.ret = ErrCreatingArchive
        /\ ExportTempDir(last.model_name, last.param_size) \notin tmpDirs
        /\ last.output_path \notin DOMAIN files

\* C30: in delete_model every blob deletion comes before the removal of the
\* manifest, and when the removal of the manifest file fails (for a variant
\* whose manifest is a JSON object, the callback never answering False) the
\* call returns "Error deleting manifest": the manifest entries and the model
\* directories are what they were, and every blob the manifest names is gone,
\* the other blobs being what they were.
C30_FailedManifestRemovalIsFatal ==
    [][Calls("delete") =>
          /\ ReportedBefore(last'.reports, {"Deleting blob files", "Deleting blob"},
                            {"Deleting manifest"})
          /\ (/\ last'.fault = "unlink_manifest"
              /\ IsFile(FS, ManifestPath(last'.model_name, last'.param_size, ""))
              /\ last'.manifest.kind = "object") =>
                 /\ last'.ret = ErrDeletingManifest
                 /\ manifests' = manifests
                 /\ modelDirs' = modelDirs
                 /\ blobs' = [f \in (DOMAIN blobs) \ BlobsOf(last'.manifest) |-> blobs[f]]]_vars

\* C30 witness: a delete with a callback, of a variant that names three
\* blobs, has deleted blobs and then failed to remove the manifest, which is
\* still there.
C30_ManifestRemovalFailedAfterBlobs ==
    /\ Called("delete")
    /\ last.fault = "unlink_manifest"
    /\ last.ret = ErrDeletingManifest
    /\ last.manifest = Typical
    /\ \E i \in 1..Len(last.reports) : last.reports[i].msg = "Deleting blob"
    /\ last.reports[Len(last.reports)].msg = "Deleting manifest"
    /\ <<last.model_name, last.param_size>> \in DOMAIN manifests
    /\ BlobsOf(Typical) \cap DOMAIN blobs = {}

\* C24: the CLI process exits with 0 when the requested command succeeds
\* (list always; export, import and delete when the engine returns no error,
\* and then the archive is written, or the variant's manifest is gone), with
\* 1 when it fails (a failure or an exception of the engine, no manifest
\* found, no archive file, a prompt not confirmed, no command given), and
\* with 130 on an interrupt.
C24_ExitCodes ==
    [][Calls("main") =>
        LET a == last'.args
            declined == last'.answer \notin {"y", "yes"}
            refused == \/ /\ a.command = "export"
                          /\ a.output_path \in DOMAIN files /\ ~a.force /\ declined
                       \/ a.command = "delete" /\ ~a.force /\ declined
            missing == \/ /\ a.command = "export"
                          /\ \/ <<a.model, a.parameter_size>> \notin DOMAIN manifests
                             \/ Resolved(FS, <<a.model, a.parameter_size>>) = {}
                       \/ a.command = "import" /\ a.archive_path \notin DOMAIN files IN
        /\ last'.exit \in {ExitDone, ExitFailed, ExitInterrupted}
        /\ last'.exit = ExitInterrupted <=> last'.interrupt
        /\ last'.exit = ExitDone <=>
              /\ ~last'.interrupt
              /\ a.command # "none"
              /\ ~refused /\ ~missing
              /\ a.command # "list" => last'.ret = Success
        /\ (last'.exit = ExitDone /\ a.command = "export") =>
              /\ a.output_path \in DOMAIN files'
              /\ files'[a.output_path].kind = "tar"
        /\ (last'.exit = ExitDone /\ a.command = "delete") =>
              <<a.model, a.parameter_size>> \notin DOMAIN manifests'
        /\ (last'.exit = ExitDone /\ a.command = "import") =>
              DOMAIN manifests' # {}
        /\ (last'.interrupt \/ refused \/ missing \/ a.command \in {"list", "none"}) =>
              UNCHANGED <<manifests, modelDirs, blobs, files, tmpDirs>>]_vars

\* C24 witness: an export run of the tool has ended with 1 because the engine
\* returned a failure, after the overwrite prompt was answered y.
C24_ExportFailedInEngine ==
    /\ Called("main")
    /\ last.args.command = "export"
    /\ ~last.args.force
    /\ last.args.output_path \in DOMAIN files
    /\ last.ret = ErrBlobNotFound
    /\ last.exit = ExitFailed

\* C22 (as claimed; the code breaks it): in the window at most one worker is
\* in flight at any time, and while a worker has not finished the controls
\* that start an operation (Export Model, Import Model, Delete Model) are
\* disabled.
C22_AtMostOneWorkerInFlight ==
    /\ Len(threads) <= 1
    /\ threads # << >> => (~gui.tab_buttons /\ ~gui.delete_btn)

\* C23 (as claimed; the code breaks it): a step of a worker thread writes
\* nothing of the front end's state but the queue (the cancellation flag it
\* only reads): whatever else the window holds is the same after the step.
C23_WorkerWritesOnlyTheQueue ==
    [][(threads' # threads /\ nops' = nops)
          => [gui' EXCEPT !.queue = gui.queue] = gui]_vars

\* C31 (as claimed; the code breaks it): a cancellation requested while a
\* worker is running is not lost: when cancel_requested is set and a worker
\* is in flight, a step in which no worker starts or finishes leaves it set.
C31_CancelStaysSetWhileWorkerRuns ==
    [][(gui.cancel_requested /\ threads # << >> /\ Len(threads') = Len(threads))
          => gui'.cancel_requested]_vars

\* C32 (as claimed; the code breaks it): when the only worker of the window
\* ends by reporting its operation as cancelled, the operation was not
\* committed: an export has not created its output archive, and a delete has
\* left the manifest of its variant in place.
C32_CancelledMeansNotCommitted ==
    [][(/\ Len(threads) = 1
        /\ threads' = << >>
        /\ Len(gui'.queue) > Len(gui.queue)
        /\ gui'.queue[Len(gui.queue) + 1] = ShowMessage("show_info", "cancelled"))
          => LET w == threads[1] IN
             /\ (w.op = "export" /\ w.args.output_path \notin DOMAIN files)
                   => w.args.output_path \notin DOMAIN files'
             /\ (w.op = "delete"
                 /\ <<w.args.model_name, w.args.param_size>> \in DOMAIN manifests)
                   => <<w.args.model_name, w.args.param_size>> \in DOMAIN manifests']_vars

C34_EarlyCancelledImportChangesNothing ==
    [][(/\ Calls("import")
        /\ last'.ret = Cancelled
        /\ RefusedAt(last', {"Extracting archive", "Extracting member",
                             "Reading manifest", "Importing"}))
          => (manifests' = manifests /\ modelDirs' = modelDirs /\ blobs' = blobs)]_vars

\* C35: delete_model returns the plain cancelled outcome only while the
\* manifest of the variant is still there, unchanged.  Once the manifest is
\* removed a False from the callback does not abort the call: the result is
\* success or "completed but cancelled at final step", and the model
\* directory is removed when it has become empty.
C35_CancelledOnlyWhileManifestExists ==
    [][(Calls("delete") /\ Deleted \in DOMAIN manifests) =>
         /\ last'.ret = Cancelled =>
               (Deleted \in DOMAIN manifests' /\ manifests'[Deleted] = manifests[Deleted])
         /\ RefusedAt(last', {"Deleting empty model directory", "Delete complete"}) =>
               Deleted \notin DOMAIN manifests'
         /\ Deleted \notin DOMAIN manifests' =>
               /\ last'.ret \in {Success, CompletedButCancelled}
               /\ (\A k \in DOMAIN manifests' : k[1] # Deleted[1]) =>
                      Deleted[1] \notin modelDirs']_vars

\* C35 (witness): a delete was cancelled after it had deleted a blob (a blob
\* report before the False was answered True): the manifest is in place and
\* a blob it names is gone.
C35_CancelledAfterBlobDeleted ==
    /\ Called("delete")
    /\ last.ret = Cancelled
    /\ \E k \in last.refused : \E j \in 1..(k - 1) : last.reports[j].msg = "Deleting blob"
    /\ <<last.model_name, last.param_size>> \in DOMAIN manifests
    /\ \E f \in BlobsOf(manifests[<<last.model_name, last.param_size>>].content) :
          f \notin DOMAIN blobs

\* C36 (as claimed; the code breaks it): every variant that list_models()
\* returns can be deleted by its name and tag: delete_model of a listed
\* variant, with a callback that always answers True and no failing file
\* operation, succeeds.
C36_ListedVariantCanBeDeleted ==
    [][(/\ Calls("delete")
        /\ last'.fault = NoFault
        /\ last'.refused = {} /\ last'.reports # << >>
        /\ last'.param_size \in ListedTags(FS, last'.model_name))
          => last'.ret = Success]_vars

\* C37 (as claimed; the code breaks it): when export_model fails because a
\* blob of a layer is not in the store, its working directory does not exist
\* after the call and no output file has been created.
C37_BlobMissingLeavesNothingBehind ==
    [][(Calls("export") /\ last'.ret = ErrBlobNotFound) =>
         /\ ExportTempDir(last'.model_name, last'.param_size) \notin tmpDirs'
         /\ files' = files]_vars

\* C38 (as claimed; the code breaks it): when import_model returns one of its
\* errors after it has made its working directory (extraction error, no
\* manifest, manifest or metadata.json that cannot be read, manifest copy
\* error, blob not in the archive), the working directory does not exist.
C38_FailedImportRemovesWorkingDir ==
    [][(/\ Calls("import")
        /\ last'.ret \in {ErrExtractingArchive, ErrNoManifest, ErrReadingManifest,
                          ErrReadingMetadata, ErrCopyingManifest, ErrBlobNotInArchive})
          => ImportTempDir(last'.archive_path) \notin tmpDirs']_vars

\* C39 (as claimed; the code breaks it): within one run of export_model,
\* import_model or delete_model the percentages given to the callback never
\* decrease from one report to a later one.
C39_PercentagesNeverDecrease ==
    (last.op \in {"export", "import", "delete"}) =>
        \A i, j \in 1..Len(last.reports) :
            i < j => last.reports[i].pct[1] * last.reports[j].pct[2]
                        <= last.reports[j].pct[1] * last.reports[i].pct[2]

=============================================================================
